---- MODULE Spec2Model ----
(***************************************************************************)
(* Model of the tool-augmented agent engine AIAgentBubble                  *)
(* (packages/bubble-core/src/bubbles/service-bubble/ai-agent.ts).          *)
(*                                                                         *)
(* Spec       : one invocation of performAction, from the call to the      *)
(*              result, with the model adapter, the tools, the hooks and   *)
(*              the streaming sink as nondeterministic environments.       *)
(* SpecLive   : Spec with every call of the environment returning or       *)
(*              throwing in the end.                                       *)
(* SpecDerive : the pure function buildModelConfig on bounded inputs.      *)
(* SpecOverlap: two invocations of one agent instance that overlap in      *)
(*              time, reduced to what they do with the instance's stop     *)
(*              flag.                                                      *)
(* SpecReplay : two executions that are given the same inputs step by     *)
(*              step, reduced to what decides the streaming events.        *)
(* SpecBackoff: the pure function exponentialBackoff on the attempt        *)
(*              numbers the schema allows and a grid of Math.random().     *)
(* SpecWorkflow: BubbleFlowGeneratorWorkflow.performAction, the code       *)
(*              generator that drives the engine through its tool hooks.   *)
(***************************************************************************)
EXTENDS Integers, Sequences, FiniteSets, TLC

VARIABLES
    params,               \* this.params: the caller's parameters (fixed per invocation)
    modelConfig,          \* the modelConfig argument of the running executeWithModel
    execNo,               \* 0 before executeWithModel; 1 primary; 2 backup execution
    pc,                   \* position of the invocation
    messages,             \* graph state: MessagesAnnotation.State.messages
    steps,                \* graph supersteps run by graph.invoke in this execution
    attemptNumber,        \* p-retry attempt number of the model call in flight
    toolIdx,              \* index of the next tool call of the batch (for loop)
    toolMessages,         \* executeToolsWithHooks: toolMessages
    currentMessages,      \* executeToolsWithHooks: currentMessages
    shouldStopAfterTools, \* instance field this.shouldStopAfterTools
    nextId,               \* source of fresh message ids and tool call ids
    lastTurn,             \* the agent turn that has just ended (attempts it made)
    lastError,            \* message of the error executeAgent's catch caught last
    backupResult,         \* <<>>, or <<what executeWithModel(backupModelConfig) returned>>
    result,               \* <<>> until performAction returns, then <<AIAgentResult>>
    events,               \* sink calls and tool steps of the node run in progress, in order
    primaryConfig,        \* SpecDerive: first argument of buildModelConfig
    backupConfig,         \* SpecDerive: second argument (<<>> is undefined)
    derivedConfig,        \* SpecDerive: <<>> until called, then <<returned config>>
    runs,                 \* SpecOverlap: the position of each overlapping invocation
    replay,               \* SpecReplay: the inputs given and the two executions fed with them
    backoff,              \* SpecBackoff: <<>> until called, then <<the sleep computed>>
    workflow              \* SpecWorkflow: the code generator's closure state and its agent run

vars == <<params, modelConfig, execNo, pc, messages, steps, attemptNumber,
          toolIdx, toolMessages, currentMessages,
          shouldStopAfterTools, nextId, lastTurn, lastError, backupResult,
          result, events, primaryConfig, backupConfig, derivedConfig, runs,
          replay, backoff, workflow>>

engineVars == <<params, modelConfig, execNo, pc, messages, steps, attemptNumber,
                toolIdx, toolMessages, currentMessages, shouldStopAfterTools, nextId, lastTurn,
                lastError, backupResult, result, events>>

deriveVars == <<primaryConfig, backupConfig, derivedConfig>>

----------------------------------------------------------------------------
(* Bounds of the model *)

\* Math.random() is explored on the grid 0, 1/JitterSteps, ..., below 1
JitterSteps == 16
\* largest maxRetries value explored (the schema allows 0..10)
MaxRetriesBound == 2
\* largest maxIterations value explored (the schema requires >= 2)
MaxIterationsBound == 3
\* most tool calls one AI message carries
MaxBatch == 2
\* most tool calls the model adapter requests within one execution
MaxToolCalls == 2

----------------------------------------------------------------------------
(* Values *)

\* an optional number that is undefined (every schema range is >= 0)
Undefined == -1

\* schema: maxIterations: z.number().positive().min(2)
MinIterations == 2

\* RunnableRetry.stopAfterAttempt = maxRetries gives
\* p-retry retries = max(stopAfterAttempt - 1, 0), i.e. that many + 1 attempts
MaxAttempts(stopAfterAttempt) ==
    (IF stopAfterAttempt - 1 > 0 THEN stopAfterAttempt - 1 ELSE 0) + 1

Models == {"google/gemini-2.5-flash", "google/gemini-2.5-pro",
           "openai/gpt-5-mini"}

\* model.substring(0, model.indexOf('/'))
ProviderOf(model) ==
    IF model = "openai/gpt-5-mini" THEN "openai" ELSE "google"

TemperatureValues == {0, 1}
MaxTokensValues == {100, 200}
RetriesValues == 0..MaxRetriesBound
\* the maxRetries values the engine is run with: none, and the largest
EngineRetriesValues == {0, MaxRetriesBound}

\* BackupModelConfigSchema: model required, the three numbers optional
BackupConfigs ==
    [model : Models,
     temperature : TemperatureValues \cup {Undefined},
     maxTokens : {100, Undefined},
     maxRetries : RetriesValues \cup {Undefined}]

\* ModelConfigSchema after parsing; backupModel is <<>> (absent) or <<backup>>
MkModelConfig(m, t, mt, mr, pr, js, bk) ==
    [model |-> m, temperature |-> t, maxTokens |-> mt, maxRetries |-> mr,
     provider |-> pr, jsonMode |-> js, backupModel |-> bk]

\* mutant of Coalesce: a || b, which also discards a falsy 0
CoalesceFalsy(a, b) == IF a = Undefined \/ a = 0 THEN b ELSE a

\* a ?? b : b only when a is null or undefined (0 is a value)
Coalesce(a, b) == IF a = Undefined THEN b ELSE a

\* mutant of buildModelConfig: a missing backup still rebuilds the config and
\* drops the caller's settings that the backup schema does not carry
buildModelConfigRebuild(primary, backup) ==
    IF backup = <<>>
    THEN MkModelConfig(primary.model, primary.temperature, primary.maxTokens,
                       primary.maxRetries, <<>>, FALSE, <<>>)
    ELSE MkModelConfig(backup[1].model,
                       Coalesce(backup[1].temperature, primary.temperature),
                       Coalesce(backup[1].maxTokens, primary.maxTokens),
                       Coalesce(backup[1].maxRetries, primary.maxRetries),
                       primary.provider, primary.jsonMode, <<>>)

\* mutant of buildModelConfig: the derived config keeps the backupModel
buildModelConfigChained(primary, backup) ==
    IF backup = <<>>
    THEN primary
    ELSE MkModelConfig(backup[1].model,
                       Coalesce(backup[1].temperature, primary.temperature),
                       Coalesce(backup[1].maxTokens, primary.maxTokens),
                       Coalesce(backup[1].maxRetries, primary.maxRetries),
                       primary.provider, primary.jsonMode, primary.backupModel)

\* buildModelConfig(primaryConfig, backupConfig?)
buildModelConfig(primary, backup) ==
    IF backup = <<>>
    THEN primary
    ELSE MkModelConfig(backup[1].model,
                       Coalesce(backup[1].temperature, primary.temperature),
                       Coalesce(backup[1].maxTokens, primary.maxTokens),
                       Coalesce(backup[1].maxRetries, primary.maxRetries),
                       primary.provider, primary.jsonMode, <<>>)

----------------------------------------------------------------------------
(* Messages *)

\* message content: a string (json = FALSE) or the JSON text of a value
Text(t) == [json |-> FALSE, text |-> t, arg |-> ""]
TextOf(t, a) == [json |-> FALSE, text |-> t, arg |-> a]
Json(t) == [json |-> TRUE, text |-> t, arg |-> ""]

NoFinishReason == "none"

\* id 0: the message has no id yet (messagesStateReducer assigns one)
HumanMessage(content) ==
    [id |-> 0, type |-> "human", content |-> content, tool_calls |-> <<>>,
     tool_call_id |-> 0, finishReason |-> NoFinishReason]

AIMessage(content, calls, reason) ==
    [id |-> 0, type |-> "ai", content |-> content, tool_calls |-> calls,
     tool_call_id |-> 0, finishReason |-> reason]

ToolMessage(content, callId) ==
    [id |-> 0, type |-> "tool", content |-> content, tool_calls |-> <<>>,
     tool_call_id |-> callId, finishReason |-> NoFinishReason]

\* typeof toolOutput === 'string' ? toolOutput : JSON.stringify(toolOutput)
StringifyOutput(out) ==
    IF out.kind = "string" THEN Text(out.v) ELSE Json(out.v)

\* try { output = JSON.parse(output) } catch { keep the string }
ParseOutput(content) ==
    IF content.json
    THEN [kind |-> "object", v |-> content.text]
    ELSE [kind |-> "string", v |-> content.text]

\* `Error: Tool ${toolCall.name} not found`
NotFoundContent(name) == TextOf("Error: Tool <name> not found", name)

\* `Error: ${error.message}`
ErrorContent(msg) == TextOf("Error: <message>", msg)

IndexOfId(seq, id) ==
    IF \E i \in 1..Len(seq) : seq[i].id = id
    THEN CHOOSE i \in 1..Len(seq) : seq[i].id = id
    ELSE 0

\* messagesStateReducer of MessagesAnnotation: a message of the update with no
\* id gets a fresh one and is appended; one whose id is already in the state
\* replaces that message in place; any other is appended.
RECURSIVE MergeFrom(_, _, _, _)
MergeFrom(left, right, k, nid) ==
    IF k > Len(right)
    THEN [messages |-> left, nextId |-> nid]
    ELSE LET m == right[k]
         IN  IF m.id = 0
             THEN MergeFrom(Append(left, [m EXCEPT !.id = nid]), right,
                            k + 1, nid + 1)
             ELSE IF IndexOfId(left, m.id) # 0
                  THEN MergeFrom([left EXCEPT ![IndexOfId(left, m.id)] = m],
                                 right, k + 1, nid)
                  ELSE MergeFrom(Append(left, m), right, k + 1, nid)

messagesStateReducer(left, right, nid) == MergeFrom(left, right, 1, nid)

\* toolCall.args = ... on the tool call object that lastMessage.tool_calls
\* holds: every history holding that AI message object sees the new args
SetArgs(seq, msgId, k, args) ==
    [i \in 1..Len(seq) |->
        IF seq[i].id = msgId /\ seq[i].type = "ai"
        THEN [seq[i] EXCEPT !.tool_calls[k].args = args]
        ELSE seq[i]]

----------------------------------------------------------------------------
(* The environment: what the model adapter, the tools, the hooks and the
   streaming sink can do *)

\* the registry holds at most this tool; "ghost" is a name the model can
\* request that no registry holds
RegistryNames == {"search"}
RequestableNames == {"search", "ghost"}

OriginalArgs == "args"
RewrittenArgs == "args-from-hook"

\* an error the model adapter throws: transient, or Gemini's content filter
\* ('candidateContent' in the message)
ModelErrors == {"503 Service Unavailable", "candidateContent"}

IsContentFilterError(msg) == msg = "candidateContent"

SinkError == "sink failed"
BeforeHookError == "before-hook failed"
AfterHookError == "after-hook failed"
ToolError == "tool failed"
RecursionError == "Recursion limit reached"
ImageError == "Failed to load image from URL"
SafetyError == "[Gemini Error] Unable to generate a response"
MaxTokensError == "Response was truncated due to max tokens limit"
FormatError == "Failed to parse JSON response"

\* what a tool's invoke returns: a string or a value that is stringified
ToolOutputs == {[kind |-> "object", v |-> "value"]}

\* undefined (also: no hook), a throw, or {messages, toolInput}
BeforeOutcomes == {"none", "throw", "args", "drop"}
\* undefined (also: no hook), a throw, or {messages, shouldStop?}; the
\* messages returned are the ones passed, or lack the first, or have a note
\* appended, or have the first one replaced by an edited copy
AfterOutcomes == {"none", "throw", "stop", "drop", "add", "edit"}
\* the sink returns, or throws synchronously
SinkOutcomes == {"ok", "throw"}
\* a sink called without await can also return a promise that is still
\* pending when the engine goes on
UnawaitedSinkOutcomes == SinkOutcomes \cup {"async"}
\* invoke throws, or returns an output
ToolThrows == [kind |-> "throw", v |-> ""]
ToolOutcomes == {ToolThrows} \cup ToolOutputs

\* what the environment does during one resolvable tool call
CallOutcomes ==
    [before : BeforeOutcomes, startSink : UnawaitedSinkOutcomes,
     out : ToolOutcomes, after : AfterOutcomes,
     completeSink : UnawaitedSinkOutcomes]

\* how many of the five steps of a call depart from the plain course (no hook
\* result, the sink returns, the tool returns)
Departures(o) ==
    (IF o.before = "none" THEN 0 ELSE 1)
    + (IF o.startSink = "ok" THEN 0 ELSE 1)
    + (IF o.out = ToolThrows THEN 1 ELSE 0)
    + (IF o.after = "none" THEN 0 ELSE 1)
    + (IF o.completeSink = "ok" THEN 0 ELSE 1)

\* the courses of one call that are explored: the plain one, every single
\* departure from it, and a before-hook that rewrites the arguments followed
\* by an after-hook that requests the stop; the calls of a batch combine freely
CallScenarios ==
    {o \in CallOutcomes :
        \/ Departures(o) <= 1
        \/ Departures(o) = 2 /\ o.before = "args" /\ o.after = "stop"}

RECURSIVE SeqsUpTo(_, _)
SeqsUpTo(S, n) ==
    IF n = 0 THEN {<<>>}
    ELSE LET shorter == SeqsUpTo(S, n - 1)
         IN  shorter \cup {Append(q, x) : q \in shorter, x \in S}

\* the tool calls of one AI message: ids are unique within the run
MkToolCalls(names, firstId) ==
    [k \in 1..Len(names) |->
        [id |-> firstId + k - 1, name |-> names[k], args |-> OriginalArgs]]

\* the AI messages a successful model call can return. What the adapter
\* returns is not constrained by the engine: an AI message can carry tool
\* calls also when no tools were bound (llm.withRetry without bindTools),
\* and a message that was cut off at the token limit can carry a tool call.
Replies(callBudget, firstId) ==
    {AIMessage(Text("answer"), <<>>, r) :
        r \in {NoFinishReason, "SAFETY_BLOCKED", "MAX_TOKENS"}}
    \cup {AIMessage(Json("{answer}"), <<>>, NoFinishReason)}
    \cup {AIMessage(Text(""), MkToolCalls(<<name>>, firstId), "MAX_TOKENS") :
            name \in {n \in RegistryNames : callBudget >= 1}}
    \cup {AIMessage(Text(""), MkToolCalls(names, firstId), NoFinishReason) :
            names \in {q \in SeqsUpTo(RequestableNames, MaxBatch) :
                          Len(q) >= 1 /\ Len(q) <= callBudget}}

----------------------------------------------------------------------------
(* executeToolsWithHooks: one iteration of the for loop *)

\* mutant of CatchToolError: the error message is pushed to toolMessages only,
\* as the not-found message is
CatchToolErrorUnlisted(tm, cm, stop, msg, callId) ==
    [tm |-> Append(tm, ToolMessage(ErrorContent(msg), callId)),
     cm |-> cm, stop |-> stop, args |-> "", invoked |-> FALSE]

\* the catch block: the error becomes a tool message in both lists
CatchToolError(tm, cm, stop, msg, callId) ==
    [tm |-> Append(tm, ToolMessage(ErrorContent(msg), callId)),
     cm |-> Append(cm, ToolMessage(ErrorContent(msg), callId)),
     stop |-> stop, args |-> "", invoked |-> FALSE]

\* what the before-hook's result does to currentMessages (lines 817-820)
ApplyBefore(before, cm) ==
    IF before = "drop" /\ cm # <<>> THEN Tail(cm) ELSE cm

\* what the after-hook's result does to currentMessages (lines 848-851)
ApplyAfter(after, cm) ==
    IF after = "drop" /\ cm # <<>> THEN Tail(cm)
    ELSE IF after = "add" THEN Append(cm, HumanMessage(Text("note")))
    ELSE IF after = "edit" /\ cm # <<>>
    THEN [cm EXCEPT ![1].content = Text("edited")]
    ELSE cm

\* mutant of ProcessCall: the stop flag follows the last after-hook result
ProcessCallLastHookDecides(call, tm, cm, stop, before, startSink, out, after, completeSink) ==
    LET args1 == IF before = "args" THEN RewrittenArgs ELSE call.args
        cm1 == ApplyBefore(before, cm)
        toolMessage == ToolMessage(StringifyOutput(out), call.id)
        tm2 == Append(tm, toolMessage)
        cm2 == Append(cm1, toolMessage)
        cm3 == ApplyAfter(after, cm2)
        stop3 == after = "stop"
    IN  IF before = "throw"
        THEN [CatchToolError(tm, cm, stop, BeforeHookError, call.id)
                 EXCEPT !.args = call.args]
        ELSE IF startSink = "throw"
        THEN [CatchToolError(tm, cm, stop, SinkError, call.id)
                 EXCEPT !.args = call.args]
        ELSE IF out = ToolThrows
        THEN [CatchToolError(tm, cm1, stop, ToolError, call.id)
                 EXCEPT !.args = args1, !.invoked = TRUE]
        ELSE IF after = "throw"
        THEN [CatchToolError(tm2, cm2, stop, AfterHookError, call.id)
                 EXCEPT !.args = args1, !.invoked = TRUE]
        ELSE IF completeSink = "throw"
        THEN [CatchToolError(tm2, cm3, stop3, SinkError, call.id)
                 EXCEPT !.args = args1, !.invoked = TRUE]
        ELSE [tm |-> tm2, cm |-> cm3, stop |-> stop3, args |-> args1,
              invoked |-> TRUE]

\* one resolvable tool call, from the before-hook to the tool_complete event:
\* the lists, the stop flag and the call's args as the iteration leaves them
ProcessCall(call, tm, cm, stop, before, startSink, out, after, completeSink) ==
    LET args1 == IF before = "args" THEN RewrittenArgs ELSE call.args
        cm1 == ApplyBefore(before, cm)
        toolMessage == ToolMessage(StringifyOutput(out), call.id)
        tm2 == Append(tm, toolMessage)
        cm2 == Append(cm1, toolMessage)
        cm3 == ApplyAfter(after, cm2)
        stop3 == IF after = "stop" THEN TRUE ELSE stop
    IN  IF before = "throw"
        THEN [CatchToolError(tm, cm, stop, BeforeHookError, call.id)
                 EXCEPT !.args = call.args]
        ELSE IF startSink = "throw"
        THEN [CatchToolError(tm, cm, stop, SinkError, call.id)
                 EXCEPT !.args = call.args]
        ELSE IF out = ToolThrows
        THEN [CatchToolError(tm, cm1, stop, ToolError, call.id)
                 EXCEPT !.args = args1, !.invoked = TRUE]
        ELSE IF after = "throw"
        THEN [CatchToolError(tm2, cm2, stop, AfterHookError, call.id)
                 EXCEPT !.args = args1, !.invoked = TRUE]
        ELSE IF completeSink = "throw"
        THEN [CatchToolError(tm2, cm3, stop3, SinkError, call.id)
                 EXCEPT !.args = args1, !.invoked = TRUE]
        ELSE [tm |-> tm2, cm |-> cm3, stop |-> stop3, args |-> args1,
              invoked |-> TRUE]

\* an entry of events: a call of the sink (type = the event's type), or a step
\* of the tools node ("call": the loop takes up a tool call, "before_hook" and
\* "after_hook": the point where the hook, if there is one, is called,
\* "tool_invoke": tool.invoke is called, "tool_message": the tool message of
\* the output is built and pushed) or of the agent node ("backoff": the sleep
\* of exponentialBackoff). ok: it returned without throwing. settled: the
\* sink's handling of the event was complete when the engine went on.
Event(type, callId, ok, settled) ==
    [type |-> type, callId |-> callId, ok |-> ok, settled |-> settled,
     tool |-> "", input |-> "", history |-> <<>>, returned |-> "",
     recoverable |-> FALSE, model |-> "", temperature |-> Undefined,
     attemptBound |-> Undefined]

\* this.streamingCallback?.(event) without await (lines 807, 857, 1388)
SinkEvent(type, callId, outcome) ==
    Event(type, callId, outcome # "throw", outcome # "async")

\* await this.streamingCallback(event) (lines 939, 977, 989, 997)
AwaitedSinkEvent(type, outcome) == Event(type, 0, outcome # "throw", TRUE)

\* a step of a tool call with the data it carries: data.tool and data.input
\* of a tool event, the argument of tool.invoke, toolName and toolInput of a
\* hook call
WithData(event, tool, input) ==
    [event EXCEPT !.tool = tool, !.input = input]

\* the `messages` a hook is called with, as the list of its messages' ids and
\* tool_call_ids (a message built in the tools node has no id yet)
Digest(msgs) == [i \in 1..Len(msgs) |-> <<msgs[i].id, msgs[i].tool_call_id>>]

\* a hook call ("before_hook", "after_hook") with toolName, toolInput and
\* messages, and what the hook did
HookEvent(type, call, input, outcome, msgs) ==
    [WithData(Event(type, call.id, outcome # "throw", TRUE), call.name, input)
        EXCEPT !.history = Digest(msgs), !.returned = outcome]

\* mutant of CallEvents: tool_complete is sent before tool_start
CallEventsCompleteFirst(call, cm, before, startSink, out, after, completeSink) ==
    <<Event("call", call.id, TRUE, TRUE)>> \o
    (IF before = "throw" THEN <<>>
     ELSE <<SinkEvent("tool_complete", call.id, completeSink),
            Event("tool_invoke", call.id, out # ToolThrows, TRUE),
            SinkEvent("tool_start", call.id, startSink)>>)

\* mutant of CallEvents: the after-hook is called before the tool message is
\* built, with the history as it was before
CallEventsHookBeforeMessage(call, cm, before, startSink, out, after, completeSink) ==
    LET args1 == IF before = "args" THEN RewrittenArgs ELSE call.args
        cm1 == ApplyBefore(before, cm)
    IN  <<Event("call", call.id, TRUE, TRUE),
          HookEvent("before_hook", call, call.args, before, cm)>> \o
        (IF before = "throw" THEN <<>>
         ELSE <<WithData(SinkEvent("tool_start", call.id, startSink),
                         call.name, call.args)>> \o
              (IF startSink = "throw" THEN <<>>
               ELSE <<WithData(Event("tool_invoke", call.id,
                                     out # ToolThrows, TRUE),
                               call.name, args1)>> \o
                    (IF out = ToolThrows THEN <<>>
                     ELSE <<HookEvent("after_hook", call, args1, after, cm1),
                            Event("tool_message", call.id, TRUE, TRUE)>>
                          \o
                          (IF after = "throw" THEN <<>>
                           ELSE <<WithData(SinkEvent("tool_complete", call.id,
                                                     completeSink),
                                           call.name, args1)>>))))

\* what one iteration of the loop over a resolvable call adds to events
\* (lines 797-866): the try block runs until its first throw
CallEvents(call, cm, before, startSink, out, after, completeSink) ==
    LET args1 == IF before = "args" THEN RewrittenArgs ELSE call.args
        cm1 == ApplyBefore(before, cm)
        cm2 == Append(cm1, ToolMessage(StringifyOutput(out), call.id))
    IN  <<Event("call", call.id, TRUE, TRUE),
          HookEvent("before_hook", call, call.args, before, cm)>> \o
        (IF before = "throw" THEN <<>>
         ELSE <<WithData(SinkEvent("tool_start", call.id, startSink),
                         call.name, call.args)>> \o
              (IF startSink = "throw" THEN <<>>
               ELSE <<WithData(Event("tool_invoke", call.id,
                                     out # ToolThrows, TRUE),
                               call.name, args1)>> \o
                    (IF out = ToolThrows THEN <<>>
                     ELSE <<Event("tool_message", call.id, TRUE, TRUE),
                            HookEvent("after_hook", call, args1, after, cm2)>>
                          \o
                          (IF after = "throw" THEN <<>>
                           ELSE <<WithData(SinkEvent("tool_complete", call.id,
                                                     completeSink),
                                           call.name, args1)>>))))

\* data.recoverable of an error event
Recoverable(event, recoverable) == [event EXCEPT !.recoverable = recoverable]

\* mutant of ModelCallEvents: the node goes on while the call is outstanding
ModelCallEventsNotAwaited(returned, thinking, retrySink, retriesLeft) ==
    <<AwaitedSinkEvent("llm_start", "ok")>>

\* mutant of ModelCallEvents: the sleep does not depend on the retries left
ModelCallEventsSleepAlways(returned, thinking, retrySink, retriesLeft) ==
    <<AwaitedSinkEvent("llm_start", "ok")>> \o
    (IF returned
     THEN (IF thinking THEN <<AwaitedSinkEvent("think", "ok")>> ELSE <<>>)
          \o <<AwaitedSinkEvent("llm_complete", "ok")>>
     ELSE <<Recoverable(AwaitedSinkEvent("error", retrySink), retriesLeft > 0)>>
          \o (IF retrySink # "throw"
              THEN <<Event("backoff", 0, TRUE, TRUE)>>
              ELSE <<>>))

\* the callbacks of one model call (lines 974-1005): handleLLMStart, and
\* handleLLMEnd when the call returned; the retry wrapper's onFailedAttempt
\* (lines 917-952) when it threw: the error event with recoverable =
\* retriesLeft > 0, then the sleep if retries are left
ModelCallEvents(returned, thinking, retrySink, retriesLeft) ==
    <<AwaitedSinkEvent("llm_start", "ok")>> \o
    (IF returned
     THEN (IF thinking THEN <<AwaitedSinkEvent("think", "ok")>> ELSE <<>>)
          \o <<AwaitedSinkEvent("llm_complete", "ok")>>
     ELSE <<Recoverable(AwaitedSinkEvent("error", retrySink), retriesLeft > 0)>>
          \o (IF retrySink # "throw" /\ retriesLeft > 0
              THEN <<Event("backoff", 0, TRUE, TRUE)>>
              ELSE <<>>))

\* the events of a model call with what they quote of a configuration:
\* data.model and data.temperature of llm_start (lines 978-983), and the
\* attempt bound in the text of the retry's error event (line 942)
Quoting(sent, cfg) ==
    [i \in 1..Len(sent) |->
        IF sent[i].type = "llm_start"
        THEN [sent[i] EXCEPT !.model = cfg.model,
                             !.temperature = cfg.temperature]
        ELSE IF sent[i].type = "error"
        THEN [sent[i] EXCEPT !.attemptBound = cfg.maxRetries]
        ELSE sent[i]]

\* lines 878-884: what the tools node returns to the graph
ToolsNodeReturn(msgs, cm, tm) ==
    IF Len(cm) # Len(msgs) + Len(tm) THEN cm ELSE tm

----------------------------------------------------------------------------
(* executeAgent after graph.invoke: the accounting *)

\* lines 1200-1253: one walk over the history; calls seen so far are in
\* toolCallMap (here: the tool calls of the AI messages before position k)
RECURSIVE CallsBefore(_, _)
CallsBefore(msgs, k) ==
    IF k <= 1 THEN <<>>
    ELSE CallsBefore(msgs, k - 1) \o
         (IF msgs[k - 1].type = "ai" THEN msgs[k - 1].tool_calls ELSE <<>>)

\* toolCallMap.get(id): the last entry set for that id
LookupCall(calls, id) ==
    LET hits == {i \in 1..Len(calls) : calls[i].id = id}
    IN  IF hits = {} THEN <<>>
        ELSE <<calls[CHOOSE i \in hits : \A j \in hits : j <= i]>>

RECURSIVE AccountFrom(_, _)
AccountFrom(msgs, k) ==
    IF k > Len(msgs) THEN <<>>
    ELSE LET m == msgs[k]
             hit == IF m.type = "tool"
                    THEN LookupCall(CallsBefore(msgs, k), m.tool_call_id)
                    ELSE <<>>
         IN  (IF hit = <<>> THEN <<>>
              ELSE <<[tool |-> hit[1].name, input |-> hit[1].args,
                      output |-> ParseOutput(m.content)]>>)
             \o AccountFrom(msgs, k + 1)

AccountToolCalls(msgs) == AccountFrom(msgs, 1)

\* aiMessages[aiMessages.length - 1], <<>> when there is none
FinalMessage(msgs) ==
    LET ais == {i \in 1..Len(msgs) : msgs[i].type = "ai"}
    IN  IF ais = {} THEN <<>>
        ELSE <<msgs[CHOOSE i \in ais : \A j \in ais : j <= i]>>

\* formatFinalResponse(response, model, jsonMode) of utils/agent-formatter:
\* in jsonMode the response is validated as JSON; a parse failure is reported
\* in .error and nothing is thrown
formatFinalResponse(response, jsonMode) ==
    IF jsonMode /\ ~response.json
    THEN [response |-> response, error |-> FormatError]
    ELSE [response |-> response, error |-> ""]

MkResult(response, toolCalls, iterations, success, error) ==
    [response |-> response, toolCalls |-> toolCalls,
     iterations |-> iterations, success |-> success, error |-> error]

\* performAction's catch (lines 431-444)
PerformActionCatch(msg) ==
    MkResult(TextOf("Error: <message>", msg), <<>>, 0, FALSE, msg)

\* mutant of ExecutionErrorResult: the partial result is reported as a success
ExecutionErrorResultAsSuccess(msg, iterations, toolCalls) ==
    MkResult(TextOf("Execution error: <message>", msg), toolCalls, iterations,
             TRUE, msg)

\* executeAgent's final return in its catch (lines 1403-1414)
ExecutionErrorResult(msg, iterations, toolCalls) ==
    MkResult(TextOf("Execution error: <message>", msg), toolCalls, iterations,
             FALSE, msg)

\* mutant of IterationsOf: the agent turns (AI messages) are counted
IterationsOfTurns(msgs) ==
    Cardinality({i \in 1..Len(msgs) : msgs[i].type = "ai"})

\* iterations = result.messages.length (line 1198)
IterationsOf(msgs) == Len(msgs)

----------------------------------------------------------------------------
(* The invocation *)

NoTurn == [attempts |-> 0, failed |-> FALSE, maxRetries |-> 0, execNo |-> 0]

NoCredentials == [present |-> FALSE, keys |-> {}]

\* the cases of initializeModel's switch (provider) (lines 511-527)
SupportedProviders == {"openai", "google", "anthropic", "openrouter"}

\* mutant of ConfigError: the credential of the provider is not looked up
ConfigErrorMapOnly(cfg) ==
    IF ~params.credentials.present THEN "No credentials provided" ELSE ""

\* initializeModel's throws (lines 508-532), "" when the model is built
ConfigError(cfg) ==
    IF ~params.credentials.present THEN "No credentials provided"
    ELSE IF ProviderOf(cfg.model) \notin SupportedProviders
         THEN "Unsupported model provider"
    ELSE IF ProviderOf(cfg.model) \notin params.credentials.keys
         THEN "No credential found for provider"
         ELSE ""

HasTools == params.tools # {}

\* the tool calls of lastMessage (the AI message the tools node was entered for)
Batch == messages[Len(messages)].tool_calls

\* tool calls the model has requested so far in this execution
RequestedCalls == Len(CallsBefore(messages, Len(messages) + 1))

\* shouldContinue (lines 1051-1061), and the fixed edge agent -> __end__ of a
\* graph built without tools (line 1091)
shouldContinue(hasTools, lastMessage) ==
    IF hasTools /\ Len(lastMessage.tool_calls) > 0 THEN "tools" ELSE "end"

\* mutant of shouldContinueAfterTools: the graph ends after every batch
shouldContinueAfterToolsAlwaysEnd(stop) == "end"

\* mutant of shouldContinueAfterTools: the stop flag is not looked at
shouldContinueAfterToolsIgnoreStop(stop) == "agent"

\* shouldContinueAfterTools (lines 1064-1071)
shouldContinueAfterTools(stop) == IF stop THEN "end" ELSE "agent"

\* mutant of LimitReached: graph.invoke is called without the recursionLimit
LimitReachedNever(stepsDone, recursionLimit) == FALSE

\* graph.invoke(..., {recursionLimit}): a superstep that leaves work to do
\* after recursionLimit supersteps raises GraphRecursionError
LimitReached(stepsDone, recursionLimit) == stepsDone >= recursionLimit

\* performAction returns r
Return(r) ==
    /\ result' = <<r>>
    /\ pc' = "done"

\* executeAgent returns r: the primary's return is performAction's return; the
\* backup's goes back to the catch block that called executeWithModel
ExecReturn(r) ==
    IF execNo >= 2
    THEN /\ backupResult' = <<r>>
         /\ pc' = "fallbackReturn"
         /\ UNCHANGED result
    ELSE /\ Return(r)
         /\ UNCHANGED backupResult

\* executeAgent's catch block (lines 1375-1415) for an error thrown in its
\* try. An error thrown while the backup runs is not caught again by the
\* primary's catch block, which is where the backup was called from.
\* Assigns pc, result, backupResult, lastError, modelConfig, execNo, events;
\* emitted: what the step that threw has added to events before.
ExecCatch(msg, iterations, toolCalls, emitted) ==
    /\ lastError' = msg
    /\ IF modelConfig.backupModel # <<>>
       THEN \E sink \in UnawaitedSinkOutcomes :
            /\ events' = Append(emitted,
                                 Recoverable(SinkEvent("error", 0, sink), TRUE))
            /\ IF sink = "throw"
               THEN /\ Return(PerformActionCatch(SinkError))
                    /\ UNCHANGED <<backupResult, modelConfig, execNo>>
               ELSE /\ modelConfig' =
                        buildModelConfig(modelConfig, modelConfig.backupModel)
                    /\ execNo' = execNo + 1
                    /\ pc' = "start"
                    /\ UNCHANGED <<result, backupResult>>
       ELSE /\ events' = emitted
            /\ ExecReturn(ExecutionErrorResult(msg, iterations, toolCalls))
            /\ UNCHANGED <<modelConfig, execNo>>

\* mutant of GraphInput: the run is resumed from the history of the
\* execution before
GraphInputResumed(previous) ==
    previous \o <<HumanMessage(Text("message"))>>

\* lines 1191-1192: graph.invoke({ messages: [humanMessage] }): the input of
\* a graph run, whatever the history of the execution before was
GraphInput(previous) == <<HumanMessage(Text("message"))>>

\* executeWithModel up to graph.invoke: initializeModel, initializeTools,
\* createAgentGraph, the human message (with the image fetch)
ExecuteWithModel ==
    /\ pc = "start"
    /\ \E image \in {"ok", "fail"} :
        LET init == messagesStateReducer(<<>>, GraphInput(messages), 1)
        IN
        /\ lastTurn' = NoTurn
        /\ UNCHANGED <<params, shouldStopAfterTools>>
        /\ toolIdx' = 0 /\ toolMessages' = <<>> /\ currentMessages' = <<>>
        /\ attemptNumber' = 0
        /\ steps' = 0
        /\ IF ConfigError(modelConfig) # ""
           THEN \* thrown out of executeWithModel, caught by performAction
                /\ Return(PerformActionCatch(ConfigError(modelConfig)))
                /\ messages' = <<>> /\ nextId' = 1
                /\ events' = <<>>
                /\ UNCHANGED <<backupResult, lastError, modelConfig, execNo>>
           ELSE IF image = "fail"
           THEN /\ messages' = <<>> /\ nextId' = 1
                /\ ExecCatch(ImageError, 0, <<>>, <<>>)
           ELSE /\ messages' = init.messages
                /\ nextId' = init.nextId
                /\ pc' = "agent"
                /\ lastError' = ""
                /\ events' = <<>>
                /\ UNCHANGED <<result, backupResult, modelConfig, execNo>>
    /\ UNCHANGED <<deriveVars, runs, replay, backoff, workflow>>

\* the graph moves on after a node appended to the history: the next node, or
\* GraphRecursionError when the limit is used up and work is left.
\* Assigns pc, result, backupResult, lastError, modelConfig, execNo, events
\* and the tools node's locals.
GraphAdvance(next, newMessages, stepsDone, emitted) ==
    IF next = "end"
    THEN /\ pc' = "end"
         /\ events' = emitted
         /\ toolIdx' = 0 /\ toolMessages' = <<>> /\ currentMessages' = <<>>
         /\ UNCHANGED <<result, backupResult, lastError, modelConfig, execNo,
                        shouldStopAfterTools>>
    ELSE IF LimitReached(stepsDone, params.maxIterations)
    THEN /\ ExecCatch(RecursionError, 0, <<>>, emitted)
         /\ toolIdx' = 0 /\ toolMessages' = <<>> /\ currentMessages' = <<>>
         /\ UNCHANGED shouldStopAfterTools
    ELSE IF next = "tools"
    THEN \* executeToolsWithHooks, lines 773-781
         /\ pc' = "tools"
         /\ events' = emitted
         /\ toolIdx' = 1
         /\ toolMessages' = <<>>
         /\ currentMessages' = newMessages
         /\ shouldStopAfterTools' = FALSE
         /\ UNCHANGED <<result, backupResult, lastError, modelConfig, execNo>>
    ELSE /\ pc' = "agent"
         /\ events' = emitted
         /\ toolIdx' = 0 /\ toolMessages' = <<>> /\ currentMessages' = <<>>
         /\ UNCHANGED <<result, backupResult, lastError, modelConfig, execNo,
                        shouldStopAfterTools>>

\* the configuration that agentNode's events quote: this.params.model
\* (lines 942, 980-981)
QuotedConfig == params.model

\* how many attempts the retry wrapper of the agent node makes:
\* withRetry({stopAfterAttempt: this.params.model.maxRetries}) (lines 956-965)
StopAfterAttempt == params.model.maxRetries

\* agentNode: one attempt of modelWithTools.invoke, with onFailedAttempt and
\* the node's catch
AgentAttempt ==
    /\ pc = "agent"
    /\ UNCHANGED <<params>>
    /\ \/ \* the model call returns an AI message
          \E reply \in Replies(MaxToolCalls - RequestedCalls, nextId + 1),
             thinking \in BOOLEAN :
            LET merged == messagesStateReducer(messages, <<reply>>, nextId)
                used == merged.nextId + Len(reply.tool_calls)
                emitted == (IF attemptNumber = 0 THEN <<>> ELSE events)
                           \o Quoting(ModelCallEvents(TRUE, thinking, "ok", 0),
                                      QuotedConfig)
            IN  /\ messages' = merged.messages
                /\ nextId' = used
                /\ steps' = steps + 1
                /\ attemptNumber' = 0
                /\ lastTurn' = NoTurn
                /\ GraphAdvance(shouldContinue(HasTools, reply),
                                merged.messages, steps + 1, emitted)
       \/ \* the model call throws
          \E err \in ModelErrors, retrySink \in SinkOutcomes :
            LET attempt == attemptNumber + 1
                retriesLeft == MaxAttempts(StopAfterAttempt) - attempt
                emitted == (IF attemptNumber = 0 THEN <<>> ELSE events)
                           \o Quoting(ModelCallEvents(FALSE, FALSE, retrySink,
                                                      retriesLeft),
                                      QuotedConfig)
                ended == [attempts |-> attempt, failed |-> TRUE,
                          maxRetries |-> modelConfig.maxRetries,
                          execNo |-> execNo]
                errorAI == AIMessage(TextOf("[Gemini Error] <message>", err),
                                     <<>>, "ERROR")
                merged == messagesStateReducer(messages, <<errorAI>>, nextId)
            IN  /\ IF retrySink = "throw"
                   THEN \* onFailedAttempt rejects: p-retry gives up with the
                        \* sink's error, which agentNode rethrows
                        /\ ExecCatch(SinkError, 0, <<>>, emitted)
                        /\ lastTurn' = ended
                        /\ attemptNumber' = 0
                        /\ toolIdx' = 0 /\ toolMessages' = <<>>
                        /\ currentMessages' = <<>>
                        /\ UNCHANGED <<messages, nextId, steps,
                                       shouldStopAfterTools>>
                   ELSE IF retriesLeft > 0
                   THEN \* exponentialBackoff, then the next attempt
                        /\ attemptNumber' = attempt
                        /\ events' = emitted
                        /\ UNCHANGED <<messages, nextId, steps, lastTurn, pc,
                                       result, backupResult, lastError,
                                       modelConfig, execNo, toolIdx,
                                       toolMessages, currentMessages,
                                       shouldStopAfterTools>>
                   ELSE IF IsContentFilterError(err)
                   THEN \* lines 1021-1043: the error becomes an AI message
                        /\ messages' = merged.messages
                        /\ nextId' = merged.nextId
                        /\ steps' = steps + 1
                        /\ attemptNumber' = 0
                        /\ lastTurn' = ended
                        /\ GraphAdvance(shouldContinue(HasTools, errorAI),
                                        merged.messages, steps + 1, emitted)
                   ELSE \* rethrown: graph.invoke rejects
                        /\ ExecCatch(err, 0, <<>>, emitted)
                        /\ lastTurn' = ended
                        /\ attemptNumber' = 0
                        /\ toolIdx' = 0 /\ toolMessages' = <<>>
                        /\ currentMessages' = <<>>
                        /\ UNCHANGED <<messages, nextId, steps,
                                       shouldStopAfterTools>>
    /\ UNCHANGED <<deriveVars, runs, replay, backoff, workflow>>

\* executeToolsWithHooks: one iteration of `for (const toolCall of toolCalls)`
ToolCallStep ==
    /\ pc = "tools"
    /\ toolIdx <= Len(Batch)
    /\ LET call == Batch[toolIdx]
           lastId == messages[Len(messages)].id
           sofar == IF toolIdx = 1 THEN <<>> ELSE events
       IN  IF call.name \notin params.tools
           THEN \* lines 786-795: not found, only toolMessages grows
                /\ toolMessages' = Append(toolMessages,
                        ToolMessage(NotFoundContent(call.name), call.id))
                /\ events' = Append(sofar, Event("call", call.id, FALSE, TRUE))
                /\ UNCHANGED <<currentMessages, messages, shouldStopAfterTools>>
           ELSE \E o \in CallScenarios :
                  LET r == ProcessCall(call, toolMessages, currentMessages,
                                       shouldStopAfterTools, o.before,
                                       o.startSink, o.out, o.after,
                                       o.completeSink)
                  IN  /\ toolMessages' = r.tm
                      /\ currentMessages' = SetArgs(r.cm, lastId, toolIdx, r.args)
                      /\ messages' = SetArgs(messages, lastId, toolIdx, r.args)
                      /\ shouldStopAfterTools' = r.stop
                      /\ events' = sofar \o
                            CallEvents(call, currentMessages, o.before,
                                       o.startSink, o.out, o.after,
                                       o.completeSink)
    /\ toolIdx' = toolIdx + 1
    /\ UNCHANGED <<params, modelConfig, execNo, pc, steps, attemptNumber,
                   nextId, lastTurn, lastError, backupResult, result>>
    /\ UNCHANGED <<deriveVars, runs, replay, backoff, workflow>>

\* executeToolsWithHooks returns (lines 878-884), the reducer merges what it
\* returned into the state and shouldContinueAfterTools picks the next node
ToolsReturn ==
    /\ pc = "tools"
    /\ toolIdx > Len(Batch)
    /\ LET returned == ToolsNodeReturn(messages, currentMessages, toolMessages)
            merged == messagesStateReducer(messages, returned, nextId)
        IN  /\ messages' = merged.messages
            /\ nextId' = merged.nextId
            /\ steps' = steps + 1
            /\ IF shouldContinueAfterTools(shouldStopAfterTools) = "end"
               THEN /\ pc' = "end"
                    /\ events' = <<>>
                    /\ UNCHANGED <<result, backupResult, lastError,
                                   modelConfig, execNo>>
               ELSE IF LimitReached(steps + 1, params.maxIterations)
               THEN ExecCatch(RecursionError, 0, <<>>, <<>>)
               ELSE /\ pc' = "agent"
                    /\ events' = <<>>
                    /\ UNCHANGED <<result, backupResult, lastError,
                                   modelConfig, execNo>>
    /\ toolIdx' = 0 /\ toolMessages' = <<>> /\ currentMessages' = <<>>
    /\ UNCHANGED <<params, attemptNumber, shouldStopAfterTools, lastTurn>>
    /\ UNCHANGED <<deriveVars, runs, replay, backoff, workflow>>

\* mutant of FinishError: only the safety marker is looked at
FinishErrorSafetyOnly(reason) ==
    IF reason = "SAFETY_BLOCKED" THEN SafetyError ELSE ""

\* lines 1265-1275: the error thrown for the final AI message's finishReason,
\* "" when nothing is thrown
FinishError(reason) ==
    IF reason = "SAFETY_BLOCKED" THEN SafetyError
    ELSE IF reason = "MAX_TOKENS" THEN MaxTokensError
    ELSE ""

\* mutant of FormatErrorResult: the accounting of the run is not reported
FormatErrorResultUnaccounted(formatted, toolCalls, iterations) ==
    MkResult(formatted.response, <<>>, 0, FALSE, formatted.error)

\* lines 1338-1347: the early return for an error from formatting
FormatErrorResult(formatted, toolCalls, iterations) ==
    MkResult(formatted.response, toolCalls, iterations, FALSE, formatted.error)

\* executeAgent after graph.invoke returned (lines 1196-1374)
Account ==
    /\ pc = "end"
    /\ LET iterations == IterationsOf(messages)
            toolCalls == AccountToolCalls(messages)
            final == FinalMessage(messages)
            reason == IF final = <<>> THEN NoFinishReason
                      ELSE final[1].finishReason
            response == IF final = <<>> THEN Text("") ELSE final[1].content
            formatted == formatFinalResponse(response, modelConfig.jsonMode)
        IN  IF FinishError(reason) # ""
            THEN ExecCatch(FinishError(reason), iterations, toolCalls, <<>>)
            ELSE IF formatted.error # ""
            THEN /\ ExecReturn(FormatErrorResult(formatted, toolCalls,
                                                 iterations))
                 /\ UNCHANGED events
                 /\ UNCHANGED <<lastError, modelConfig, execNo>>
            ELSE /\ ExecReturn(MkResult(formatted.response, toolCalls,
                                        iterations, TRUE, ""))
                 /\ UNCHANGED events
                 /\ UNCHANGED <<lastError, modelConfig, execNo>>
    /\ lastTurn' = NoTurn
    /\ UNCHANGED <<params, messages, steps, attemptNumber, toolIdx,
                   toolMessages, currentMessages, shouldStopAfterTools,
                   nextId>>
    /\ UNCHANGED <<deriveVars, runs, replay, backoff, workflow>>

\* `return backupResult` (line 1400), then performAction's `return await`
FallbackResult(r) == r

FallbackReturn ==
    /\ pc = "fallbackReturn"
    /\ Return(FallbackResult(backupResult[1]))
    /\ UNCHANGED <<params, modelConfig, execNo, messages, steps, attemptNumber,
                   toolIdx, toolMessages, currentMessages, shouldStopAfterTools, nextId, lastTurn,
                   lastError, backupResult, events>>
    /\ UNCHANGED <<deriveVars, runs, replay, backoff, workflow>>

----------------------------------------------------------------------------
(* Specifications *)

GoogleBackup(bmr) ==
    <<[model |-> "google/gemini-2.5-pro", temperature |-> Undefined,
       maxTokens |-> Undefined, maxRetries |-> bmr]>>

\* the backup of the schema's default; the credential maps explored hold no
\* openai key, so this backup fails in initializeModel
OpenAIBackup ==
    <<[model |-> "openai/gpt-5-mini", temperature |-> Undefined,
       maxTokens |-> Undefined, maxRetries |-> Undefined]>>

EngineConfig(mr, js, bk) ==
    MkModelConfig("google/gemini-2.5-flash", 1, 100, mr, <<>>, js, bk)

\* the configurations the engine is run with: with and without retries, with
\* no backup and with a backup that inherits maxRetries; a backup with its
\* own maxRetries under a primary that retries; a backup that cannot be
\* built; jsonMode with and without a backup
EngineConfigs ==
    {EngineConfig(mr, FALSE, bk) :
        mr \in EngineRetriesValues, bk \in {<<>>, GoogleBackup(Undefined)}}
    \cup {EngineConfig(MaxRetriesBound, FALSE, GoogleBackup(1)),
          EngineConfig(0, FALSE, OpenAIBackup)}
    \cup {EngineConfig(0, TRUE, bk) : bk \in {<<>>, GoogleBackup(Undefined)}}

CredentialMaps ==
    {NoCredentials} \cup
    {[present |-> TRUE, keys |-> k] :
        k \in {{}, {"google"}}}

\* the invocations of SpecOverlap: two action() calls on one instance
Runs == {1, 2}

NoRun == [pc |-> "idle", steps |-> 0, batch |-> 0, toolIdx |-> 0,
          asked |-> FALSE, endedBy |-> ""]

RunsIdle == runs = [r \in Runs |-> NoRun]

\* an execution of SpecReplay: where it is, its batch and stop flag, how many
\* inputs it has used, and the streaming events its last step has sent
NoExecution ==
    [pc |-> "idle", steps |-> 0, attempt |-> 0, batch |-> <<>>, toolIdx |-> 0,
     stop |-> FALSE, stopAtStart |-> FALSE, nextCall |-> 0, pos |-> 0,
     sent |-> <<>>]

NoReplay ==
    [hasTools |-> FALSE, first |-> NoExecution, second |-> NoExecution]

ReplayIdle == replay = NoReplay

BackoffIdle == backoff = <<>>

\* currentCode before any hook has set it (undefined)
NoCode == ""

\* lines 495-502, and the agent not yet started
NoWorkflow ==
    [pc |-> "idle", accepted |-> {}, hasBackup |-> FALSE, execNo |-> 0,
     steps |-> 0, batch |-> <<>>, toolIdx |-> 0, stop |-> FALSE,
     currentCode |-> NoCode, savedValid |-> FALSE, validatedCode |-> NoCode,
     agentSuccess |-> FALSE, result |-> <<>>]

WorkflowIdle == workflow = NoWorkflow

DeriveIdle ==
    /\ primaryConfig = MkModelConfig("google/gemini-2.5-flash", 1, 100, 0,
                                     <<>>, FALSE, <<>>)
    /\ backupConfig = <<>>
    /\ derivedConfig = <<>>

Init ==
    /\ params \in [model : EngineConfigs,
                   maxIterations : MinIterations..MaxIterationsBound,
                   tools : SUBSET RegistryNames,
                   credentials : CredentialMaps]
    /\ modelConfig = params.model
    /\ execNo = 1
    /\ pc = "start"
    /\ messages = <<>>
    /\ steps = 0
    /\ attemptNumber = 0
    /\ toolIdx = 0
    /\ toolMessages = <<>>
    /\ currentMessages = <<>>
    /\ shouldStopAfterTools = FALSE
    /\ nextId = 1
    /\ lastTurn = NoTurn
    /\ lastError = ""
    /\ backupResult = <<>>
    /\ result = <<>>
    /\ events = <<>>
    /\ DeriveIdle
    /\ RunsIdle
    /\ ReplayIdle
    /\ BackoffIdle
    /\ WorkflowIdle

Next ==
    \/ ExecuteWithModel
    \/ AgentAttempt
    \/ ToolCallStep
    \/ ToolsReturn
    \/ Account
    \/ FallbackReturn

Spec == Init /\ [][Next]_vars

\* every await of the invocation settles: the model call, the tool, the hooks
\* and the sink return or throw, so a step that can be taken is taken
SpecLive == Spec /\ WF_vars(Next)

----------------------------------------------------------------------------
(* SpecDerive: buildModelConfig as a pure function *)

\* parsed primary configurations; backupModel absent or the backup passed
PrimaryConfigs(backup) ==
    {MkModelConfig(m, t, mt, mr, pr, js, bk) :
        m \in {"google/gemini-2.5-flash", "openai/gpt-5-mini"},
        t \in TemperatureValues, mt \in MaxTokensValues, mr \in RetriesValues,
        pr \in {<<>>, <<"deepinfra">>}, js \in BOOLEAN,
        bk \in {<<>>, backup}}

EngineIdle ==
    /\ params = [model |-> EngineConfig(0, FALSE, <<>>),
                 maxIterations |-> MinIterations, tools |-> {},
                 credentials |-> NoCredentials]
    /\ modelConfig = params.model
    /\ execNo = 0
    /\ pc = "idle"
    /\ messages = <<>>
    /\ steps = 0
    /\ attemptNumber = 0
    /\ toolIdx = 0
    /\ toolMessages = <<>>
    /\ currentMessages = <<>>
    /\ shouldStopAfterTools = FALSE
    /\ nextId = 1
    /\ lastTurn = NoTurn
    /\ lastError = ""
    /\ backupResult = <<>>
    /\ result = <<>>
    /\ events = <<>>

InitDerive ==
    /\ backupConfig \in {<<>>} \cup {<<b>> : b \in BackupConfigs}
    /\ primaryConfig \in PrimaryConfigs(backupConfig)
    /\ derivedConfig = <<>>
    /\ EngineIdle
    /\ RunsIdle
    /\ ReplayIdle
    /\ BackoffIdle
    /\ WorkflowIdle

\* the call buildModelConfig(primaryConfig, backupConfig)
BuildModelConfigCall ==
    /\ derivedConfig = <<>>
    /\ derivedConfig' = <<buildModelConfig(primaryConfig, backupConfig)>>
    /\ UNCHANGED <<primaryConfig, backupConfig>>
    /\ UNCHANGED <<engineVars, runs, replay, backoff, workflow>>

NextDerive == BuildModelConfigCall

SpecDerive == InitDerive /\ [][NextDerive]_vars

----------------------------------------------------------------------------
(* SpecOverlap: two invocations of one instance. shouldStopAfterTools is a
   field of the instance (line 344), so both invocations read and write the
   same flag; messages, toolMessages and currentMessages are locals of each
   invocation and are left out. A run: pc, the supersteps it has run, the
   size of its batch, its position in the batch, whether an after-hook of
   its own batch has asked for the stop, and what ended it. *)

overlapFrame == <<params, modelConfig, execNo, pc, messages, steps,
                  attemptNumber, toolIdx, toolMessages, currentMessages,
                  nextId, lastTurn, lastError, backupResult, result, events,
                  deriveVars, replay, backoff, workflow>>

InitOverlap ==
    /\ EngineIdle
    /\ DeriveIdle
    /\ ReplayIdle
    /\ BackoffIdle
    /\ WorkflowIdle
    /\ runs = [r \in Runs |-> [NoRun EXCEPT !.pc = "agent"]]

\* agentNode and shouldContinue of run r: the model answers, or asks for a
\* batch of n tool calls; entering the tools node resets the flag (line 781)
OverlapAgent(r) ==
    /\ runs[r].pc = "agent"
    /\ \E n \in 0..MaxBatch :
        LET next == shouldContinue(TRUE, [tool_calls |-> [k \in 1..n |-> k]])
            done == runs[r].steps + 1
        IN  IF next = "end"
            THEN /\ runs' = [runs EXCEPT ![r].pc = "end", ![r].steps = done,
                                         ![r].endedBy = "answer"]
                 /\ UNCHANGED shouldStopAfterTools
            ELSE IF LimitReached(done, MaxIterationsBound)
            THEN /\ runs' = [runs EXCEPT ![r].pc = "end", ![r].steps = done,
                                         ![r].endedBy = "limit"]
                 /\ UNCHANGED shouldStopAfterTools
            ELSE /\ runs' = [runs EXCEPT ![r].pc = "tools", ![r].steps = done,
                                         ![r].batch = n, ![r].toolIdx = 1,
                                         ![r].asked = FALSE]
                 /\ shouldStopAfterTools' = FALSE
    /\ UNCHANGED overlapFrame

\* one iteration of the loop of run r: its after-hook may ask for the stop
\* (lines 853-855)
OverlapToolCall(r) ==
    /\ runs[r].pc = "tools"
    /\ runs[r].toolIdx <= runs[r].batch
    /\ \E after \in {"none", "stop"} :
        /\ shouldStopAfterTools' =
               (IF after = "stop" THEN TRUE ELSE shouldStopAfterTools)
        /\ runs' = [runs EXCEPT ![r].toolIdx = @ + 1,
                                ![r].asked = @ \/ after = "stop"]
    /\ UNCHANGED overlapFrame

\* the tools node of run r returns and shouldContinueAfterTools reads the flag
OverlapToolsReturn(r) ==
    /\ runs[r].pc = "tools"
    /\ runs[r].toolIdx > runs[r].batch
    /\ LET done == runs[r].steps + 1
       IN  IF shouldContinueAfterTools(shouldStopAfterTools) = "end"
           THEN runs' = [runs EXCEPT ![r].pc = "end", ![r].steps = done,
                                     ![r].endedBy = "stop"]
           ELSE IF LimitReached(done, MaxIterationsBound)
           THEN runs' = [runs EXCEPT ![r].pc = "end", ![r].steps = done,
                                     ![r].endedBy = "limit"]
           ELSE runs' = [runs EXCEPT ![r].pc = "agent", ![r].steps = done]
    /\ UNCHANGED shouldStopAfterTools
    /\ UNCHANGED overlapFrame

NextOverlap ==
    \E r \in Runs :
        \/ OverlapAgent(r)
        \/ OverlapToolCall(r)
        \/ OverlapToolsReturn(r)

SpecOverlap == InitOverlap /\ [][NextOverlap]_vars

----------------------------------------------------------------------------
(* SpecReplay: two executions, each on an instance of its own, the second
   on a fresh instance or on one whose stop flag (an instance field, line
   344) an earlier execution has left set. At each step the first execution
   is given an input (what the model adapter, the hooks, the tool and the
   sink do at that step) and the second execution is given the same input,
   if it is at the same place; an execution that is not stays where it is.
   An execution is one graph run with the largest maxRetries and
   maxIterations; the messages are left out, the stop flag and the position
   in the batch are kept. The tool call ids of the second execution differ
   from the first's. *)

\* line 781: the tools node resets the stop flag before its loop
StopAtBatchStartKept(stop) == stop

StopAtBatchStart(stop) == FALSE

NoInput == [kind |-> "none"]

\* the courses of a tool call that differ in the events sent or in the stop
ReplayScenarios ==
    {o \in CallScenarios :
        /\ o.before \in {"none", "throw", "args"}
        /\ o.after \in {"none", "throw", "stop"}}

\* the inputs an execution at e can be given: at the agent node a reply (its
\* tool calls, thinking tokens, finish marker) or a failed attempt (the error,
\* what the sink does with the retry event); in the loop the course of the
\* call, nothing for a tool that is not found
InputsAt(e, hasTools) ==
    IF e.pc = "agent"
    THEN {[kind |-> "reply", names |-> q, thinking |-> t] :
             q \in {n \in SeqsUpTo(RequestableNames, MaxBatch) :
                       Len(n) <= MaxToolCalls - (e.nextCall % 100) + 1},
             t \in BOOLEAN}
         \cup {[kind |-> "fail", err |-> err, sink |-> k] :
                  err \in ModelErrors, k \in SinkOutcomes}
    ELSE IF e.batch[e.toolIdx].name \notin (IF hasTools THEN RegistryNames ELSE {})
    THEN {NoInput}
    ELSE {[kind |-> "call", o |-> o] : o \in ReplayScenarios}

IsSinkEvent(event) == event.type \in
    {"llm_start", "think", "llm_complete", "error", "tool_start",
     "tool_complete"}

\* the node has run: the graph ends, or raises GraphRecursionError, or goes
\* to the next node
AfterNode(e, next, calls) ==
    IF next = "end" THEN [e EXCEPT !.pc = "done"]
    ELSE IF LimitReached(e.steps, MaxIterationsBound)
    THEN [e EXCEPT !.pc = "done"]
    ELSE IF next = "tools"
    THEN [e EXCEPT !.pc = "tools", !.batch = calls, !.toolIdx = 1,
                   !.stop = StopAtBatchStart(e.stop),
                   !.nextCall = e.nextCall + Len(calls)]
    ELSE [e EXCEPT !.pc = "agent", !.batch = <<>>, !.toolIdx = 0]

\* one step of an execution with the input inp: an attempt of the model call,
\* or an iteration of the loop (and the node's return after the last one)
RunStep(e, hasTools, inp) ==
    LET used == [e EXCEPT !.pos = e.pos + 1]
    IN  IF inp.kind = "reply"
        THEN LET calls == MkToolCalls(inp.names, e.nextCall)
                 ran == [used EXCEPT
                            !.steps = e.steps + 1, !.attempt = 0,
                            !.sent =
                                ModelCallEvents(TRUE, inp.thinking, "ok", 0)]
             IN  AfterNode(ran,
                           shouldContinue(hasTools, [tool_calls |-> calls]),
                           calls)
        ELSE IF inp.kind = "fail"
        THEN LET attempt == e.attempt + 1
                 failed == [used EXCEPT
                               !.sent =
                                   ModelCallEvents(FALSE, FALSE, inp.sink,
                                       MaxAttempts(MaxRetriesBound) - attempt)]
             IN  IF inp.sink = "throw" THEN [failed EXCEPT !.pc = "done"]
                 ELSE IF MaxAttempts(MaxRetriesBound) - attempt > 0
                 THEN [failed EXCEPT !.attempt = attempt]
                 ELSE IF IsContentFilterError(inp.err)
                 THEN AfterNode([failed EXCEPT !.steps = e.steps + 1,
                                               !.attempt = 0],
                                "end", <<>>)
                 ELSE [failed EXCEPT !.pc = "done"]
        ELSE LET call == e.batch[e.toolIdx]
                 r == IF inp.kind = "none"
                      THEN [stop |-> e.stop, sent |-> <<>>]
                      ELSE [stop |-> ProcessCall(call, <<>>, <<>>, e.stop,
                                         inp.o.before, inp.o.startSink,
                                         inp.o.out, inp.o.after,
                                         inp.o.completeSink).stop,
                            sent |-> SelectSeq(
                                CallEvents(call, <<>>, inp.o.before,
                                           inp.o.startSink, inp.o.out,
                                           inp.o.after, inp.o.completeSink),
                                IsSinkEvent)]
                 looped == [used EXCEPT !.toolIdx = e.toolIdx + 1,
                                        !.stop = r.stop,
                                        !.sent = r.sent]
             IN  IF e.toolIdx < Len(e.batch) THEN looped
                 ELSE AfterNode([looped EXCEPT !.steps = e.steps + 1],
                                shouldContinueAfterTools(r.stop), <<>>)

StartExecution(firstCall, stop) ==
    [NoExecution EXCEPT !.pc = "agent", !.stop = stop, !.stopAtStart = stop,
                        !.nextCall = firstCall]

InitReplay ==
    /\ EngineIdle
    /\ DeriveIdle
    /\ RunsIdle
    /\ BackoffIdle
    /\ WorkflowIdle
    /\ \E hasTools \in BOOLEAN, stop \in BOOLEAN :
           replay = [hasTools |-> hasTools,
                     first |-> StartExecution(1, FALSE),
                     second |-> StartExecution(101, stop)]

\* both executions are given inp
Replayed(inp) ==
    /\ replay' = [replay EXCEPT
           !.first = RunStep(replay.first, replay.hasTools, inp),
           !.second = IF /\ replay.second.pc = replay.first.pc
                         /\ replay.second.toolIdx = replay.first.toolIdx
                      THEN RunStep(replay.second, replay.hasTools, inp)
                      ELSE [replay.second EXCEPT !.sent = <<>>]]
    /\ UNCHANGED <<engineVars, deriveVars, runs, backoff, workflow>>

\* an attempt of the model call
ReplayModelCall ==
    /\ replay.first.pc = "agent"
    /\ \E inp \in InputsAt(replay.first, replay.hasTools) : Replayed(inp)

\* an iteration of the loop of the tools node
ReplayToolCall ==
    /\ replay.first.pc = "tools"
    /\ \E inp \in InputsAt(replay.first, replay.hasTools) : Replayed(inp)

NextReplay ==
    \/ ReplayModelCall
    \/ ReplayToolCall

SpecReplay == InitReplay /\ [][NextReplay]_vars

----------------------------------------------------------------------------
(* SpecBackoff: exponentialBackoff(attemptNumber) as a pure function of the
   attempt number and of what Math.random() returns. onFailedAttempt calls it
   when retries are left (line 949), so with the largest maxRetries of the
   schema for the failed attempts 1..MaxRetriesSchema - 1. *)

\* schema: maxRetries: z.number().int().min(0).max(10)
MaxRetriesSchema == 10

baseDelay == 1000
maxDelay == 32000

RECURSIVE Pow2(_)
Pow2(n) == IF n <= 0 THEN 1 ELSE 2 * Pow2(n - 1)

Min(a, b) == IF a < b THEN a ELSE b

\* mutant of NominalDelay: the delay is not capped
NominalDelayUncapped(k) == baseDelay * Pow2(k - 1)

\* lines 904-907: Math.min(baseDelay * Math.pow(2, attemptNumber - 1), maxDelay)
NominalDelay(k) ==
    Min(baseDelay * Pow2(k - 1), maxDelay)

\* the model's unit of time: 1 ms is this many units, so that the jitter for
\* every point r / JitterSteps of the grid is a whole number of units
UnitsPerMs == 8 * JitterSteps

\* line 910: delay * 0.25 * (Math.random() - 0.5), in units, for
\* Math.random() = r / JitterSteps
Jitter(delay, r) == delay * (2 * r - JitterSteps)

\* lines 900-913: the time passed to setTimeout, in units
exponentialBackoff(k, r) ==
    LET delay == NominalDelay(k)
    IN  [attemptNumber |-> k,
         delay |-> delay,
         finalDelay |-> delay * UnitsPerMs + Jitter(delay, r)]

InitBackoff ==
    /\ EngineIdle
    /\ DeriveIdle
    /\ RunsIdle
    /\ ReplayIdle
    /\ BackoffIdle
    /\ WorkflowIdle

ExponentialBackoffCall ==
    /\ \E k \in 1..(MaxRetriesSchema - 1), r \in 0..(JitterSteps - 1) :
           backoff' = <<exponentialBackoff(k, r)>>
    /\ UNCHANGED <<engineVars, deriveVars, runs, replay, workflow>>

NextBackoff == ExponentialBackoffCall

SpecBackoff == InitBackoff /\ [][NextBackoff]_vars

----------------------------------------------------------------------------
(* SpecWorkflow: BubbleFlowGeneratorWorkflow.performAction, the code
   generator that drives the engine through its hooks. The generator keeps
   two closure variables, currentCode and savedValidationResult, written by
   the hooks and by the editWorkflow tool, and reads them once the agent has
   returned. The agent run is the engine's graph reduced to what the hooks
   see: the batches of createWorkflow/editWorkflow calls, the stop flag, the
   recursion limit and the backup execution. The validator is a fixed set of
   accepted codes; the merge of an edit is whatever Morph returns. *)

Codes == {"A", "B"}

\* the tool calls the model can emit
WorkflowCalls ==
    {[id |-> 0, name |-> "createWorkflow", args |-> c] : c \in Codes}
        \cup {[id |-> 0, name |-> "editWorkflow", args |-> NoCode]}

WorkflowBatches == SeqsUpTo(WorkflowCalls, MaxBatch) \ {<<>>}

\* validateAndExtract(code, bubbleFactory).valid
validateAndExtract(code, accepted) == code \in accepted

\* beforeToolCall (lines 521-554): currentCode as the hook leaves it
beforeToolCall(call, currentCode) ==
    IF call.name = "createWorkflow" /\ call.args # NoCode
    THEN call.args
    ELSE currentCode

\* what the tool's func returns, and currentCode as it leaves it: createWorkflow
\* (lines 697-720) validates its input; editWorkflow (lines 723-790) merges,
\* stores and validates the merged code, or reports the edit as not applied
WorkflowToolOutputs(call, currentCode, accepted) ==
    IF call.name = "createWorkflow"
    THEN {[throws |-> FALSE, currentCode |-> currentCode,
           mergedCode |-> NoCode,
           valid |-> validateAndExtract(call.args, accepted)],
          [throws |-> TRUE, currentCode |-> currentCode,
           mergedCode |-> NoCode, valid |-> FALSE]}
    ELSE {[throws |-> FALSE, currentCode |-> currentCode,
           mergedCode |-> currentCode, valid |-> FALSE],
          [throws |-> TRUE, currentCode |-> currentCode,
           mergedCode |-> NoCode, valid |-> FALSE]}
         \cup {[throws |-> FALSE, currentCode |-> merged,
                mergedCode |-> merged,
                valid |-> validateAndExtract(merged, accepted)] :
                  merged \in Codes}
         \cup {[throws |-> TRUE, currentCode |-> merged,
                mergedCode |-> NoCode, valid |-> FALSE] : merged \in Codes}

\* afterToolCall (lines 556-654): the closure variables as the hook leaves
\* them, and what it returns (shouldStop: true is "stop"). validatedCode is
\* the code whose validation result is the saved one
afterToolCall(call, out, w) ==
    LET code == IF call.name = "createWorkflow" THEN w.currentCode
                ELSE IF out.mergedCode # NoCode THEN out.mergedCode
                ELSE w.currentCode
    IN  [currentCode |-> code,
         savedValid |-> IF out.valid THEN TRUE ELSE w.savedValid,
         validatedCode |-> IF out.valid
                           THEN (IF call.name = "createWorkflow"
                                 THEN call.args ELSE out.mergedCode)
                           ELSE w.validatedCode,
         after |-> IF out.valid THEN "stop" ELSE "none"]

\* lines 811-846 and the catch of lines 847-862: what performAction returns
WorkflowResult(success, currentCode, savedValid, summarized) ==
    IF ~success \/ currentCode = NoCode
    THEN [generatedCode |-> NoCode, isValid |-> FALSE, success |-> FALSE]
    ELSE IF savedValid /\ ~summarized
    THEN [generatedCode |-> NoCode, isValid |-> FALSE, success |-> FALSE]
    ELSE [generatedCode |-> currentCode, isValid |-> savedValid,
          success |-> TRUE]

InitWorkflow ==
    /\ EngineIdle
    /\ DeriveIdle
    /\ RunsIdle
    /\ ReplayIdle
    /\ BackoffIdle
    /\ \E accepted \in SUBSET Codes, hasBackup \in BOOLEAN :
           workflow = [NoWorkflow EXCEPT !.pc = "agent",
                                         !.accepted = accepted,
                                         !.hasBackup = hasBackup,
                                         !.execNo = 1]

\* executeAgent's catch (ai-agent.ts lines 1375-1416): the backup execution
\* starts, with the hooks and their closure as they are, or the agent
\* returns a failure
WorkflowCatch(w) ==
    IF w.hasBackup /\ w.execNo = 1
    THEN [w EXCEPT !.pc = "agent", !.execNo = 2, !.steps = 0,
                   !.batch = <<>>, !.toolIdx = 0]
    ELSE [w EXCEPT !.pc = "returned", !.agentSuccess = FALSE]

\* a node has run: the graph ends, raises GraphRecursionError, or goes on
WorkflowAfterNode(w, next, calls) ==
    IF next = "end"
    THEN [w EXCEPT !.pc = "returned", !.agentSuccess = TRUE]
    ELSE IF LimitReached(w.steps, MaxIterationsBound)
    THEN WorkflowCatch(w)
    ELSE IF next = "tools"
    THEN [w EXCEPT !.pc = "tools", !.batch = calls, !.toolIdx = 1,
                   !.stop = StopAtBatchStart(w.stop)]
    ELSE [w EXCEPT !.pc = "agent", !.batch = <<>>, !.toolIdx = 0]

\* the agent node: the model answers with a batch of tool calls or with a
\* final answer
WorkflowModelReplies ==
    /\ workflow.pc = "agent"
    /\ \E calls \in WorkflowBatches \cup {<<>>} :
           workflow' =
               WorkflowAfterNode([workflow EXCEPT !.steps = @ + 1],
                                 shouldContinue(TRUE, [tool_calls |-> calls]),
                                 calls)
    /\ UNCHANGED <<engineVars, deriveVars, runs, replay, backoff>>

\* the agent node: the model call fails for good
WorkflowModelFails ==
    /\ workflow.pc = "agent"
    /\ workflow' = WorkflowCatch(workflow)
    /\ UNCHANGED <<engineVars, deriveVars, runs, replay, backoff>>

\* one iteration of the loop of executeToolsWithHooks over a call of the
\* batch: before-hook, tool, after-hook
WorkflowToolCall ==
    /\ workflow.pc = "tools"
    /\ workflow.toolIdx <= Len(workflow.batch)
    /\ LET call == workflow.batch[workflow.toolIdx]
           hooked == [workflow EXCEPT
                         !.currentCode = beforeToolCall(call, @)]
       IN  \E out \in WorkflowToolOutputs(call, hooked.currentCode, workflow.accepted) :
               LET ran == [hooked EXCEPT !.currentCode = out.currentCode]
                   hook == afterToolCall(call, out, ran)
                   r == ProcessCall(call, <<>>, <<>>, workflow.stop, "none",
                                    "ok",
                                    IF out.throws THEN ToolThrows
                                    ELSE CHOOSE o \in ToolOutputs : TRUE,
                                    hook.after, "ok")
               IN  workflow' =
                       IF out.throws
                       THEN [ran EXCEPT !.toolIdx = @ + 1, !.stop = r.stop]
                       ELSE [ran EXCEPT
                                !.toolIdx = @ + 1, !.stop = r.stop,
                                !.currentCode = hook.currentCode,
                                !.savedValid = hook.savedValid,
                                !.validatedCode = hook.validatedCode]
    /\ UNCHANGED <<engineVars, deriveVars, runs, replay, backoff>>

\* the tools node returns after the last call of the batch
WorkflowToolsReturn ==
    /\ workflow.pc = "tools"
    /\ workflow.toolIdx > Len(workflow.batch)
    /\ workflow' =
           WorkflowAfterNode([workflow EXCEPT !.steps = @ + 1],
                             shouldContinueAfterTools(workflow.stop), <<>>)
    /\ UNCHANGED <<engineVars, deriveVars, runs, replay, backoff>>

\* aiAgent.action() has returned: performAction builds its result; the
\* summarize agent of a valid result answers or throws
WorkflowReturns ==
    /\ workflow.pc = "returned"
    /\ workflow.result = <<>>
    /\ \E summarized \in BOOLEAN :
           workflow' =
               [workflow EXCEPT
                   !.result = <<WorkflowResult(workflow.agentSuccess,
                                               workflow.currentCode,
                                               workflow.savedValid,
                                               summarized)>>]
    /\ UNCHANGED <<engineVars, deriveVars, runs, replay, backoff>>

NextWorkflow ==
    \/ WorkflowModelReplies
    \/ WorkflowModelFails
    \/ WorkflowToolCall
    \/ WorkflowToolsReturn
    \/ WorkflowReturns

SpecWorkflow == InitWorkflow /\ [][NextWorkflow]_vars

----------------------------------------------------------------------------
(* Properties *)

ResultFields == {"response", "toolCalls", "iterations", "success", "error"}

Done == pc = "done"

LastMessage == messages[Len(messages)]

\* the AI messages of the history that request tools
BatchPositions ==
    {i \in 1..Len(messages) :
        messages[i].type = "ai" /\ Len(messages[i].tool_calls) > 0}

\* every agent step appended one AI message, every other step was a run of
\* the tools node
ToolsNodeRuns ==
    steps - Cardinality({i \in 1..Len(messages) : messages[i].type = "ai"})

\* the tools node has processed the tool calls of the AI message at i
Processed(i) ==
    /\ i \in BatchPositions
    /\ Cardinality({j \in BatchPositions : j <= i}) <= ToolsNodeRuns

ResultsFor(callId) ==
    {j \in 1..Len(messages) :
        messages[j].type = "tool" /\ messages[j].tool_call_id = callId}

C2_ExactlyOneResult ==
    \A i \in 1..Len(messages) :
        Processed(i) =>
            \A k \in 1..Len(messages[i].tool_calls) :
                Cardinality(ResultsFor(messages[i].tool_calls[k].id)) = 1

\* C3: the graph never runs more than maxIterations steps; the agent step
\* that uses up the bound with a message that requests tools goes to the
\* catch block with the recursion error (not to the tools node, not to the
\* end); and a run that ended on that error without a backup model returns
\* success = false with a non-empty error.
C3_IterationBound ==
    /\ [](steps <= params.maxIterations)
    /\ [][(/\ pc = "agent"
           /\ steps' = steps + 1
           /\ steps' = params.maxIterations
           /\ HasTools
           /\ Len(messages'[Len(messages')].tool_calls) > 0)
          => (lastError' = RecursionError /\ pc' \in {"start", "done",
                                                       "fallbackReturn"})]_vars
    /\ []((Done /\ lastError = RecursionError
                /\ params.model.backupModel = <<>>)
          => (~result[1].success /\ result[1].error # ""))

\* C3 witness: the bound was used up by a message that requests tools, and
\* the run without a backup model ended in a failed result
C3_Witness ==
    /\ Done /\ lastError = RecursionError /\ steps = params.maxIterations
    /\ params.model.backupModel = <<>>
    /\ Len(LastMessage.tool_calls) > 0
    /\ ~result[1].success

\* C4 (as claimed): an agent turn in which every model call failed made
\* exactly maxRetries attempts, maxRetries being that of the configuration
\* the execution runs under.
C4_ExactlyMaxRetriesAttempts ==
    (lastTurn.failed /\ lastTurn.maxRetries >= 1)
        => lastTurn.attempts = lastTurn.maxRetries

\* C5 (as claimed): with a backup model configured, once the primary
\* execution has ended in executeAgent's catch block the backup execution is
\* run and what it returned is the overall result.
C5_BackupResultVerbatim ==
    (Done /\ params.model.backupModel # <<>> /\ (execNo >= 2 \/ lastError # ""))
        => /\ execNo = 2
           /\ backupResult # <<>> => result = backupResult

\* C6: at most two executions per invocation, and the configuration of the
\* backup execution carries no backupModel.
C6_OneLevelFallback ==
    /\ execNo <= 2
    /\ execNo = 2 => modelConfig.backupModel = <<>>

\* C6 witness: the backup execution itself failed, and the invocation ended
C6_Witness ==
    /\ Done /\ execNo = 2
    /\ backupResult # <<>> /\ ~backupResult[1].success
    /\ lastError # ""

\* C7: buildModelConfig(primary, backup) takes model from the backup, takes
\* temperature, maxTokens and maxRetries from the backup when set and from
\* the primary otherwise, and has no backupModel.
C7_DerivedFields ==
    (derivedConfig # <<>> /\ backupConfig # <<>>) =>
        LET d == derivedConfig[1]
            b == backupConfig[1]
            p == primaryConfig
        IN  /\ d.model = b.model
            /\ d.temperature =
                 (IF b.temperature # Undefined THEN b.temperature
                  ELSE p.temperature)
            /\ d.maxTokens =
                 (IF b.maxTokens # Undefined THEN b.maxTokens ELSE p.maxTokens)
            /\ d.maxRetries =
                 (IF b.maxRetries # Undefined THEN b.maxRetries
                  ELSE p.maxRetries)
            /\ d.backupModel = <<>>

\* C7 witness: a backup that sets temperature 0 and maxRetries 0 and leaves
\* maxTokens unset, under a primary with other values
C7_Witness ==
    /\ derivedConfig # <<>> /\ backupConfig # <<>>
    /\ backupConfig[1].temperature = 0 /\ primaryConfig.temperature = 1
    /\ backupConfig[1].maxRetries = 0 /\ primaryConfig.maxRetries = 2
    /\ backupConfig[1].maxTokens = Undefined
    /\ primaryConfig.backupModel # <<>>

\* C8: buildModelConfig with no backup returns the primary config, every
\* field equal to the input.
C8_NoBackupIdentity ==
    (derivedConfig # <<>> /\ backupConfig = <<>>) =>
        derivedConfig[1] = primaryConfig

\* C8 witness: the call without a backup, on a config with jsonMode and
\* provider hints set
C8_Witness ==
    /\ derivedConfig # <<>> /\ backupConfig = <<>>
    /\ primaryConfig.jsonMode /\ primaryConfig.provider # <<>>
    /\ derivedConfig[1].model = primaryConfig.model

\* events holds the sink calls of the node that ran last: of the one agent
\* turn, when the graph ran one step
ModelCalls ==
    Cardinality({i \in 1..Len(events) : events[i].type = "llm_start"})

FailedModelCalls ==
    Cardinality({i \in 1..Len(events) :
                    events[i].type = "error" /\ events[i].callId = 0})

\* the case of C9: no tools, no failed model call, the reply is plain text
\* without a finish marker, jsonMode is off
C9_Case ==
    /\ Done /\ params.tools = {} /\ FailedModelCalls = 0
    /\ ~modelConfig.jsonMode
    /\ Len(messages) >= 1
    /\ LastMessage.type = "ai"
    /\ LastMessage.finishReason = NoFinishReason
    /\ ~LastMessage.content.json

C10_NotFoundInHistory ==
    \A i \in 1..Len(messages) :
        Processed(i) =>
            \A k \in 1..Len(messages[i].tool_calls) :
                LET call == messages[i].tool_calls[k]
                IN  call.name \notin params.tools =>
                        \E j \in ResultsFor(call.id) :
                            messages[j].content = NotFoundContent(call.name)

\* the result was made by the accounting of the final history of the
\* execution that ran last
Accounted == Done /\ lastError = "" /\ messages # <<>>

\* the tool call with this id in the history, <<>> when there is none
CallOf(callId) == LookupCall(CallsBefore(messages, Len(messages) + 1), callId)

\* C11 (as claimed): no accounted tool call names a tool that is absent from
\* the registry, and every tool message of the final history that answers a
\* call of a registered tool has its entry in toolCalls.
C11_NotFoundExcluded ==
    Accounted =>
        /\ \A k \in 1..Len(result[1].toolCalls) :
               result[1].toolCalls[k].tool \in params.tools
        /\ \A j \in 1..Len(messages) :
               (/\ messages[j].type = "tool"
                /\ CallOf(messages[j].tool_call_id) # <<>>
                /\ CallOf(messages[j].tool_call_id)[1].name \in params.tools)
               => \E k \in 1..Len(result[1].toolCalls) :
                      /\ result[1].toolCalls[k].tool =
                             CallOf(messages[j].tool_call_id)[1].name
                      /\ result[1].toolCalls[k].output =
                             ParseOutput(messages[j].content)

\* the calls of the batch in progress whose tool.invoke threw
ThrownCalls ==
    {events[i].callId : i \in {j \in 1..Len(events) :
                                  events[j].type = "tool_invoke" /\ ~events[j].ok}}

\* the tools node is running the loop over the batch
InBatch == pc = "tools" /\ toolIdx >= 2

\* C12: a throw of tool.invoke becomes the tool message "Error: <message>" of
\* that call in the node's lists and the node goes on; when the node returns,
\* the history holds that message; the throw is never the error that ends an
\* execution or the error of the result.
C12_ToolThrowContained ==
    /\ [](InBatch =>
            \A id \in ThrownCalls :
                \E j \in 1..Len(toolMessages) :
                    /\ toolMessages[j].tool_call_id = id
                    /\ toolMessages[j].content = ErrorContent(ToolError))
    /\ [][(InBatch /\ pc' # "tools") =>
            /\ pc' \in {"agent", "end", "start", "done", "fallbackReturn"}
            /\ \A id \in ThrownCalls :
                   \E j \in 1..Len(messages') :
                       /\ messages'[j].type = "tool"
                       /\ messages'[j].tool_call_id = id
                       /\ messages'[j].content = ErrorContent(ToolError)]_vars
    /\ [](lastError # ToolError)
    /\ [](Done => result[1].error # ToolError)

\* C12 witness: a tool threw, its error message is in the history, and the
\* run went on to a successful result
C12_Witness ==
    /\ Done /\ result[1].success
    /\ \E j \in 1..Len(messages) :
           /\ messages[j].type = "tool"
           /\ messages[j].content = ErrorContent(ToolError)
    /\ Len(result[1].toolCalls) >= 1

\* the ids of the tool calls the loop has taken up so far, in order
TakenUp ==
    LET marks == SelectSeq(events, LAMBDA e : e.type = "call")
    IN  [k \in 1..Len(marks) |-> marks[k].callId]

\* the calls of the batch in progress that failed locally: the tool was not
\* found, or its invoke threw
FailedCalls ==
    ThrownCalls \cup
    {events[i].callId : i \in {j \in 1..Len(events) :
                                  events[j].type = "call" /\ ~events[j].ok}}

\* C13: whatever happened to the calls before, the loop has taken up the
\* calls of the batch in call order; the node returns only after all of them;
\* and unless an after-hook asked to stop or the step limit is used up, the
\* next node is the agent.
C13_BatchNeverAborted ==
    /\ [](InBatch =>
            /\ Len(TakenUp) = toolIdx - 1
            /\ \A k \in 1..Len(TakenUp) : TakenUp[k] = Batch[k].id)
    /\ [][(InBatch /\ pc' # "tools") =>
            /\ Len(TakenUp) = Len(Batch)
            /\ (~shouldStopAfterTools /\ steps' < params.maxIterations)
                   => pc' = "agent"]_vars

\* C13 witness: the first call of a batch of two failed locally, the second
\* was invoked and got its result, and the loop is over
C13_Witness ==
    /\ InBatch /\ Len(Batch) = 2 /\ toolIdx = 3
    /\ Batch[1].id \in FailedCalls
    /\ \E i \in 1..Len(events) :
           /\ events[i].type = "tool_invoke" /\ events[i].ok
           /\ events[i].callId = Batch[2].id
    /\ \E j \in 1..Len(toolMessages) :
           /\ toolMessages[j].tool_call_id = Batch[2].id
           /\ toolMessages[j].content = StringifyOutput([kind |-> "object", v |-> "value"])

\* the content of the last AI message of the history
LastAIContent ==
    LET ais == {i \in 1..Len(messages) : messages[i].type = "ai"}
    IN  messages[CHOOSE i \in ais : \A j \in ais : j <= i].content

AnsweredCalls ==
    SelectSeq(CallsBefore(messages, Len(messages) + 1),
              LAMBDA c : ResultsFor(c.id) # {})

\* C15 (as claimed): toolCalls has exactly one entry per tool call that has a
\* matching tool message, in call order.
C15_OneEntryPerAnsweredCall ==
    Accounted =>
        /\ Len(result[1].toolCalls) = Len(AnsweredCalls)
        /\ \A k \in 1..Len(AnsweredCalls) :
               k <= Len(result[1].toolCalls) =>
                   /\ result[1].toolCalls[k].tool = AnsweredCalls[k].name
                   /\ result[1].toolCalls[k].input = AnsweredCalls[k].args

SinkTypes ==
    {"llm_start", "think", "llm_complete", "error", "tool_start",
     "tool_complete"}

\* the position in the batch of the call with this id
PosInBatch(callId) == CHOOSE k \in 1..Len(Batch) : Batch[k].id = callId

\* the tool events of the node run, as positions of events
ToolSinkCalls ==
    {i \in 1..Len(events) : events[i].type \in {"tool_start", "tool_complete"}}

\* C16: in the order in which the events of a node run reach the sink,
\* llm_complete comes right after the llm_start of its model call, with at
\* most a think event between them; a tool_complete has the tool_start of its
\* call id before it; and the events of a call of the batch come after all
\* events of the calls before it.
C16_EventOrder ==
    /\ \A i \in 1..Len(events) :
           /\ events[i].type = "llm_complete" =>
                  /\ i >= 2
                  /\ \/ events[i - 1].type = "llm_start"
                     \/ /\ events[i - 1].type = "think"
                        /\ i >= 3
                        /\ events[i - 2].type = "llm_start"
           /\ events[i].type = "think" =>
                  /\ i >= 2 /\ events[i - 1].type = "llm_start"
                  /\ i < Len(events) /\ events[i + 1].type = "llm_complete"
           /\ events[i].type = "tool_complete" =>
                  \E j \in 1..(i - 1) :
                      /\ events[j].type = "tool_start"
                      /\ events[j].callId = events[i].callId
    /\ InBatch =>
           \A i, j \in ToolSinkCalls :
               i < j =>
                   PosInBatch(events[i].callId) <= PosInBatch(events[j].callId)

\* C16 witness: both calls of a batch of two sent tool_start and
\* tool_complete
C16_Witness ==
    /\ InBatch /\ Len(Batch) = 2 /\ toolIdx = 3
    /\ \A k \in 1..2 :
           \E i, j \in 1..Len(events) :
               /\ i < j
               /\ events[i].type = "tool_start" /\ events[i].callId = Batch[k].id
               /\ events[j].type = "tool_complete" /\ events[j].callId = Batch[k].id

\* C17: the engine goes on only when the sink has handled the event: the
\* handling of tool_start has completed when the tool is invoked, that of
\* tool_complete when the loop is at the next call of the batch, and that of
\* the fallback's error event when the backup execution starts.
C17_DeliveryAwaited ==
    \A i \in 1..Len(events) :
        /\ (/\ events[i].type = "tool_start"
            /\ i < Len(events)
            /\ events[i + 1].type = "tool_invoke") => events[i].settled
        /\ (/\ events[i].type = "tool_complete"
            /\ InBatch
            /\ toolIdx <= Len(Batch)) => events[i].settled
        /\ (/\ events[i].type = "error"
            /\ pc = "start"
            /\ execNo = 2) => events[i].settled

\* C18: a sink that throws changes nothing: the tool is invoked after a
\* failed tool_start, no tool message and no result carries the sink's error,
\* and the execution is not ended by it.
C18_SinkFailureHarmless ==
    /\ \A i \in 1..Len(events) :
           (events[i].type = "tool_start" /\ ~events[i].ok) =>
               /\ i < Len(events)
               /\ events[i + 1].type = "tool_invoke"
    /\ \A i \in 1..Len(toolMessages) :
           toolMessages[i].content # ErrorContent(SinkError)
    /\ lastError # SinkError
    /\ Done => result[1].error # SinkError

\* the running configuration cannot be given a model: no credential map, or
\* no credential for a provider the engine knows
CredentialMissing ==
    \/ ~params.credentials.present
    \/ ProviderOf(modelConfig.model) \notin
           (params.credentials.keys \cap
                {"openai", "google", "anthropic", "openrouter"})

ConfigurationErrors ==
    {"No credentials provided", "Unsupported model provider",
     "No credential found for provider"}

\* C19: under a configuration with no credential map, with no credential for
\* the model's provider or with an unsupported provider, the graph is never
\* entered: no model call and no retry happens under it, and the invocation
\* ends at once in a result with success = false that carries the
\* configuration error.
C19_ConfigurationErrorIsFatal ==
    /\ pc \in {"agent", "tools", "end", "fallbackReturn"} => ~CredentialMissing
    /\ (Done /\ CredentialMissing) =>
           /\ ModelCalls = 0 /\ FailedModelCalls = 0
           /\ steps = 0 /\ attemptNumber = 0 /\ messages = <<>>
           /\ ~result[1].success
           /\ result[1].error \in ConfigurationErrors
           /\ result[1].iterations = 0

\* C19 witness: the primary had its credential and failed, the backup's
\* provider has none
C19_Witness ==
    /\ Done /\ execNo = 2
    /\ params.credentials.present
    /\ CredentialMissing
    /\ ~result[1].success

\* the finish marker of the last AI message of the history, "" when the
\* history has no AI message
LastAIMarker ==
    LET ais == {i \in 1..Len(messages) : messages[i].type = "ai"}
    IN  IF ais = {} THEN ""
        ELSE messages[CHOOSE i \in ais : \A j \in ais : j <= i].finishReason

\* the graph run has finished and its last AI message is safety-blocked or
\* truncated
MarkedRunFinished ==
    pc = "end" /\ LastAIMarker \in {"SAFETY_BLOCKED", "MAX_TOKENS"}

MarkerErrorText ==
    IF LastAIMarker = "SAFETY_BLOCKED"
    THEN "[Gemini Error] Unable to generate a response"
    ELSE "Response was truncated due to max tokens limit"

ReturnedNow == IF pc' = "done" THEN result' ELSE backupResult'

C21_ContentBlockIsError ==
    (Done /\ LastAIMarker = "ERROR") =>
        /\ ~result[1].success
        /\ result[1].error # ""
        /\ result[1].response.text # "[Gemini Error] <message>"

\* the graph run has finished in jsonMode with a final response that is not
\* JSON and carries no finish marker
UnparsableRunFinished ==
    /\ pc = "end" /\ modelConfig.jsonMode
    /\ LastAIMarker \notin {"SAFETY_BLOCKED", "MAX_TOKENS"}
    /\ \E i \in 1..Len(messages) :
           /\ messages[i].type = "ai"
           /\ \A j \in (i + 1)..Len(messages) : messages[j].type # "ai"
           /\ ~messages[i].content.json

\* C22: in jsonMode a final response that does not parse makes the execution
\* return (not throw) a failure with a descriptive error that keeps the
\* toolCalls and iterations accounted for the run, and no fallback execution
\* is started, with or without a backup model.
C22_ParseFailureReturned ==
    [][UnparsableRunFinished =>
          /\ pc' \in {"done", "fallbackReturn"}
          /\ ReturnedNow # <<>>
          /\ ~ReturnedNow[1].success
          /\ ReturnedNow[1].error = "Failed to parse JSON response"
          /\ ReturnedNow[1].toolCalls = AccountToolCalls(messages)
          /\ ReturnedNow[1].iterations = Len(messages)
          /\ UNCHANGED <<execNo, modelConfig, lastError, messages, steps>>]_vars

\* C22 witness: a jsonMode invocation with a backup configured ended in the
\* parse failure of the primary's run, which had used a tool
C22_Witness ==
    /\ Done /\ execNo = 1 /\ lastError = ""
    /\ params.model.jsonMode /\ params.model.backupModel # <<>>
    /\ ~result[1].success /\ result[1].error = FormatError
    /\ result[1].toolCalls # <<>>
    /\ result[1].iterations = Len(messages)

\* C23: the stop request of one invocation never acts on another that
\* overlaps it: an invocation is ended by the stop only when an after-hook of
\* its own batch asked for it, and a stop asked for in an invocation's batch
\* is still pending while that batch runs, whatever the other invocation
\* starts.
C23_StopIsPerExecution ==
    \A r \in Runs :
        /\ (runs[r].pc = "end" /\ runs[r].endedBy = "stop") => runs[r].asked
        /\ (runs[r].pc = "tools" /\ runs[r].asked) => shouldStopAfterTools

PipelineOrder ==
    <<"call", "before_hook", "tool_start", "tool_invoke", "tool_message",
      "after_hook", "tool_complete">>

\* C27: a tool call that got as far as its tool_complete event went through
\* the steps in this order: before-hook, tool_start, tool invocation, the
\* tool message, after-hook, tool_complete; and the history the after-hook
\* was called with held the tool message of that call.
C27_PipelineOrder ==
    \A i \in 1..Len(events) :
        events[i].type = "tool_complete" =>
            /\ i >= Len(PipelineOrder)
            /\ \A k \in 1..Len(PipelineOrder) :
                   LET e == events[i - Len(PipelineOrder) + k]
                   IN  /\ e.type = PipelineOrder[k]
                       /\ e.callId = events[i].callId
            /\ \E m \in 1..Len(events[i - 1].history) :
                   events[i - 1].history[m][2] = events[i].callId

\* C27 witness: a call with a before-hook that rewrote the arguments and an
\* after-hook that asked for the stop has sent tool_complete
C27_Witness ==
    /\ pc = "tools"
    /\ \E i \in 1..Len(events) :
           /\ events[i].type = "tool_complete" /\ events[i].ok
           /\ events[i].input = RewrittenArgs
    /\ shouldStopAfterTools

\* C28: the tool_start event of a call carries the arguments the tool is
\* invoked with, also when the before-hook rewrote them.
C28_StartCarriesInvokedArgs ==
    \A i \in 1..Len(events) :
        (/\ events[i].type = "tool_start"
         /\ i < Len(events)
         /\ events[i + 1].type = "tool_invoke") =>
            events[i].input = events[i + 1].input

\* C25: the graph is in the tools node only for an AI message that carries
\* tool calls, and it has not ended on an AI message whose tool calls were
\* not processed, whatever the size of the tool set.
C25_ToolCallsAreProcessed ==
    /\ pc = "tools" => Len(Batch) > 0
    /\ (pc = "end" /\ messages # <<>> /\ LastMessage.type = "ai") =>
           Len(LastMessage.tool_calls) = 0

ModelEventTypes == {"llm_start", "think", "llm_complete", "error"}

\* C26: within one execution nothing overlaps. A model call has returned or
\* thrown before anything else happens; no tool step happens in a node run
\* that calls the model; and when the loop takes up a tool call, every step
\* of the calls before it (their hooks and invocations) lies behind.
C26_Sequential ==
    /\ \A i \in 1..Len(events) :
           events[i].type = "llm_start" =>
               /\ i < Len(events)
               /\ events[i + 1].type \in {"think", "llm_complete", "error"}
    /\ (\E i \in 1..Len(events) : events[i].type = "llm_start") =>
           \A j \in 1..Len(events) : events[j].callId = 0
    /\ pc = "tools" => attemptNumber = 0
    /\ pc = "agent" => toolIdx = 0
    /\ \A j \in 1..Len(events) :
           events[j].type = "call" =>
               \A k \in 1..Len(events) :
                   (events[k].callId # 0
                    /\ events[k].callId # events[j].callId) =>
                       (k < j <=> events[k].callId < events[j].callId)

\* C26 witness: the second call of a batch was taken up after the first
\* call's after-hook, and both tools were invoked
C26_Witness ==
    /\ InBatch /\ Len(Batch) = 2 /\ toolIdx = 3
    /\ \E i, j, k \in 1..Len(events) :
           /\ i < j /\ j < k
           /\ events[i].type = "after_hook" /\ events[i].callId = Batch[1].id
           /\ events[j].type = "before_hook" /\ events[j].callId = Batch[2].id
           /\ events[k].type = "tool_invoke" /\ events[k].callId = Batch[2].id

IsPrefix(p, q) ==
    /\ Len(p) <= Len(q)
    /\ \A i \in 1..Len(p) : p[i] = q[i]

\* the before-hook calls of the node run, as positions of events
BeforeHookCalls == {i \in 1..Len(events) : events[i].type = "before_hook"}

\* no after-hook between the positions p and q returned other messages than
\* it was passed
NoAfterRewriteBetween(p, q) ==
    \A k \in p..q :
        events[k].type = "after_hook" =>
            events[k].returned \notin {"drop", "add", "edit"}

\* C29: what the before-hook of a call returns acts on that call only: its
\* tool is invoked with the rewritten arguments; the hooks and the tool of
\* every other call get that call's own arguments; and the history passed to
\* a later call's before-hook is the one passed to this call's before-hook,
\* grown by tool messages, as if this before-hook had rewritten nothing.
C29_BeforeHookActsOnItsCallOnly ==
    /\ \A i \in BeforeHookCalls :
           /\ events[i].input = OriginalArgs
           /\ \A k \in 1..Len(events) :
                  (/\ events[k].callId = events[i].callId
                   /\ events[k].type \in {"tool_invoke", "after_hook"}) =>
                      events[k].input =
                          (IF events[i].returned = "args"
                           THEN RewrittenArgs ELSE OriginalArgs)
    /\ \A p, q \in BeforeHookCalls :
           (p < q /\ NoAfterRewriteBetween(p, q)) =>
               IsPrefix(events[p].history, events[q].history)

\* a message without its id (the reducer gives a new message its id)
Strip(m) == [m EXCEPT !.id = 0]

\* a hook of the batch returned other messages than it was passed
HookRewrote ==
    \E k \in 1..Len(events) :
        /\ events[k].type \in {"before_hook", "after_hook"}
        /\ events[k].returned \in {"drop", "add", "edit"}

\* C30: when a hook of the batch has rewritten the history, the history the
\* graph holds after the tools node is the hook's rewritten history with the
\* tool messages appended after the rewrite (currentMessages), whatever its
\* length.
C30_RewriteHandedBack ==
    [][(pc = "tools" /\ toolIdx > Len(Batch) /\ HookRewrote) =>
          /\ Len(messages') = Len(currentMessages)
          /\ \A i \in 1..Len(currentMessages) :
                 i <= Len(messages') =>
                     Strip(messages'[i]) = Strip(currentMessages[i])]_vars

\* an event without the id of its tool call
WithoutId(event) == [event EXCEPT !.callId = 0]

WithoutIds(sent) == [i \in 1..Len(sent) |-> WithoutId(sent[i])]

StopAskedBy ==
    {events[i].callId : i \in {j \in 1..Len(events) :
                                  /\ events[j].type = "after_hook"
                                  /\ events[j].returned = "stop"}}

\* C31: once an after-hook of the batch has asked for the stop, the flag is
\* set and stays set, whatever the later after-hooks return; the loop still
\* takes up every remaining call (a resolvable one with its before-hook), no
\* result is returned from within the loop, and the run leaves the tools node
\* only when the node returns after the last call, to the end of the graph.
C31_StopDoesNotInterrupt ==
    /\ []((pc = "tools" /\ StopAskedBy # {}) =>
            /\ shouldStopAfterTools
            /\ result = <<>>
            /\ Len(TakenUp) = toolIdx - 1)
    /\ [][(pc = "tools" /\ StopAskedBy # {}) =>
            IF toolIdx <= Len(Batch)
            THEN /\ pc' = "tools"
                 /\ toolIdx' = toolIdx + 1
                 /\ shouldStopAfterTools'
                 /\ TakenUp'[toolIdx] = Batch[toolIdx].id
                 /\ Batch[toolIdx].name \in params.tools =>
                        \E i \in 1..Len(events') :
                            /\ events'[i].type = "before_hook"
                            /\ events'[i].callId = Batch[toolIdx].id
            ELSE /\ pc' = "end"
                 /\ steps' = steps + 1
                 /\ shouldStopAfterTools']_vars

\* C31 witness: the after-hook of the first call of a batch of two asked for
\* the stop, the second call ran to its tool_complete event with an
\* after-hook that returned nothing, and the flag is still set
C31_Witness ==
    /\ pc = "tools" /\ Len(Batch) = 2 /\ toolIdx = 3
    /\ StopAskedBy = {Batch[1].id}
    /\ shouldStopAfterTools
    /\ \E i, j \in 1..Len(events) :
           /\ events[i].type = "after_hook"
           /\ events[i].callId = Batch[2].id
           /\ events[i].returned = "none"
           /\ events[j].type = "tool_complete"
           /\ events[j].callId = Batch[2].id

\* d_k of the claim, in ms: 1000 * 2^(k-1), at most 32000
ClaimedDelay(k) == IF k >= 6 THEN 32000 ELSE 1000 * (2 ^ (k - 1))

\* C32: the sleep computed after failed attempt k is within 25% of
\* d_k = min(1000 ms * 2^(k-1), 32000 ms): at least 0.75 d_k and at most
\* 1.25 d_k; the nominal delay is d_k, which is twice d_(k-1) or the cap of
\* 32 s, and never more than the cap.
C32_BackoffWithinQuarter ==
    backoff # <<>> =>
        LET k == backoff[1].attemptNumber
            d == ClaimedDelay(k)
        IN  /\ backoff[1].delay = d
            /\ d <= 32000
            /\ k >= 2 => d = Min(2 * ClaimedDelay(k - 1), 32000)
            /\ 4 * backoff[1].finalDelay >= 3 * d * UnitsPerMs
            /\ 4 * backoff[1].finalDelay <= 5 * d * UnitsPerMs

\* C32 witness: a sleep after the seventh failed attempt, where the cap
\* applies, with a value of Math.random() below one half
C32_Witness ==
    /\ backoff # <<>>
    /\ backoff[1].attemptNumber = 7
    /\ backoff[1].delay = 32000
    /\ backoff[1].finalDelay < 32000 * UnitsPerMs

\* the error events of the retry policy: onFailedAttempt sends its event
\* right after the model call that failed
RetryErrors ==
    {i \in 2..Len(events) :
        events[i].type = "error" /\ events[i - 1].type = "llm_start"}

\* the number of the attempt that the event at i belongs to
AttemptAt(i) ==
    Cardinality({j \in 1..i : events[j].type = "llm_start"})

\* C33: the error event of a failed attempt says recoverable exactly when
\* the policy has retries left; a sleep happens only right after one such
\* event that the sink has taken, and when the event is recoverable and the
\* sink has taken it the sleep follows at once; a further attempt of the same
\* model call starts only right after a sleep; after the last failed attempt
\* there is no sleep and no further attempt.
C33_RecoverableThenSleep ==
    /\ \A i \in RetryErrors :
           /\ events[i].recoverable <=>
                  AttemptAt(i) < MaxAttempts(StopAfterAttempt)
           /\ (events[i].recoverable /\ events[i].ok) =>
                  /\ i < Len(events)
                  /\ events[i + 1].type = "backoff"
           /\ ~events[i].recoverable =>
                  \A j \in (i + 1)..Len(events) :
                      events[j].type \notin {"backoff", "llm_start"}
    /\ \A i \in 1..Len(events) :
           /\ events[i].type = "backoff" =>
                  /\ i - 1 \in RetryErrors
                  /\ events[i - 1].recoverable /\ events[i - 1].ok
           /\ (events[i].type = "llm_start" /\ i > 1) =>
                  events[i - 1].type = "backoff"
    /\ pc = "agent" =>
           attemptNumber =
               Cardinality({i \in 1..Len(events) : events[i].type = "backoff"})

\* C33 witness: the first attempt failed with retries left, its recoverable
\* error event was followed by the sleep and the second attempt; the second
\* attempt was the last and failed too
C33_Witness ==
    /\ Len(events) >= 5
    /\ events[1].type = "llm_start"
    /\ events[2].type = "error" /\ events[2].recoverable
    /\ events[3].type = "backoff"
    /\ events[4].type = "llm_start"
    /\ events[5].type = "error" /\ ~events[5].recoverable

\* C34 (as claimed): in the backup execution the attempts of a model call
\* are bounded by the maxRetries of the derived configuration (the backup's
\* value, or the primary's when the backup has none): no turn makes more
\* attempts than a retry policy with that value makes.
C34_BackupRetriesDerived ==
    execNo = 2 =>
        /\ attemptNumber < MaxAttempts(modelConfig.maxRetries)
        /\ lastTurn.execNo = 2 =>
               lastTurn.attempts <= MaxAttempts(modelConfig.maxRetries)

\* an agent turn of the primary execution has just ended with its model call
\* failed
PrimaryCallFailed == lastTurn.failed /\ lastTurn.execNo = 1

\* C35 (as claimed): a model call that fails is given up only when the
\* attempts of the retry policy are used up; then, with a backupModel
\* configured, the backup execution is started; a failed result is returned
\* only without a backupModel or from the backup execution; and the backup
\* execution starts only from the failure of the primary.
C35_EscalationOrder ==
    /\ lastTurn.failed => lastTurn.attempts = MaxAttempts(StopAfterAttempt)
    /\ (PrimaryCallFailed /\ params.model.backupModel # <<>>) => execNo = 2
    /\ (Done /\ PrimaryCallFailed /\ ~result[1].success) =>
           params.model.backupModel = <<>>
    /\ (execNo = 2 /\ pc = "start") => lastError # ""

\* the calls requested by the AI messages of the history
RequestedIds ==
    UNION {{messages[i].tool_calls[k].id :
               k \in 1..Len(messages[i].tool_calls)} :
           i \in 1..Len(messages)}

\* C36: the backup execution begins with the human message alone and with
\* nothing of a tools node left over; whatever the primary execution left in
\* the stop flag, a batch of the backup execution begins with the flag
\* cleared and the flag is set in it only by an after-hook of that batch;
\* every tool message of its history answers a call of its own history; and
\* what it returns is accounted from its own history (or, for an error that
\* left the graph run, holds no tool calls and no iterations).
C36_BackupStartsFresh ==
    execNo = 2 =>
        /\ (pc = "agent" /\ steps = 0) =>
               /\ Len(messages) = 1
               /\ messages[1] = [HumanMessage(Text("message")) EXCEPT !.id = 1]
               /\ toolIdx = 0 /\ toolMessages = <<>> /\ currentMessages = <<>>
        /\ \A j \in 1..Len(messages) :
               messages[j].type = "tool" =>
                   messages[j].tool_call_id \in RequestedIds
        /\ (pc = "tools" /\ toolIdx = 1) => ~shouldStopAfterTools
        /\ (pc = "tools" /\ toolIdx >= 2) =>
               (shouldStopAfterTools <=> StopAskedBy # {})
        /\ pc = "fallbackReturn" =>
               \/ /\ backupResult[1].toolCalls = AccountToolCalls(messages)
                  /\ backupResult[1].iterations = IterationsOf(messages)
               \/ /\ backupResult[1].toolCalls = <<>>
                  /\ backupResult[1].iterations = 0
                  /\ ~backupResult[1].success

\* C36 witness: the primary execution ended in an error after a batch whose
\* after-hook had set the stop flag; the backup execution has started with
\* the flag still set and is about to make its first model call
C36_Witness ==
    /\ execNo = 2 /\ pc = "agent" /\ steps = 0
    /\ shouldStopAfterTools
    /\ lastError = ""
    /\ Len(messages) = 1

\* C37 (as claimed): an execution that ended in executeAgent's catch block
\* with no backupModel configured returns a partial result: its toolCalls
\* are the calls that the history shows as completed before the error, and
\* its iterations are not 0 when graph steps were run before the error.
C37_PartialResultOnFailure ==
    (Done /\ execNo = 1 /\ params.model.backupModel = <<>> /\ lastError # "") =>
        /\ ~result[1].success
        /\ result[1].toolCalls = AccountToolCalls(messages)
        /\ steps > 0 => result[1].iterations > 0

\* C38: when every call of the environment returns or throws, the invocation
\* ends with a result; there are at most two executions, an execution runs at
\* most maxIterations graph steps, and a model call of an agent step is
\* attempted at most as often as the retry policy allows.
C38_Terminates ==
    /\ <>(Done /\ result # <<>>)
    /\ [](/\ execNo \in {1, 2}
          /\ steps <= params.maxIterations
          /\ attemptNumber < MaxAttempts(StopAfterAttempt)
          /\ ModelCalls <= MaxAttempts(StopAfterAttempt))

\* C38 witness: an invocation that ended after the backup execution had used
\* up its graph steps
C38_Witness ==
    /\ Done /\ execNo = 2
    /\ steps = params.maxIterations
    /\ result # <<>>

\* C39 (as claimed): the llm_start events of an agent node run name the model
\* and temperature of the configuration the execution runs under, and the
\* retry's error events quote that configuration's maxRetries: in the backup
\* execution, those of the derived configuration.
C39_EventsQuoteRunningConfig ==
    pc \in {"agent", "tools", "end"} =>
        /\ \A i \in 1..Len(events) :
               events[i].type = "llm_start" =>
                   /\ events[i].model = modelConfig.model
                   /\ events[i].temperature = modelConfig.temperature
        /\ \A i \in RetryErrors :
               events[i].attemptBound = modelConfig.maxRetries

\* C40: whenever the result the code generator returns has isValid = true,
\* its generatedCode is the code for which the validator returned
\* valid = true (the code of the call whose validation result was saved, a
\* code the validator accepts), whatever batches of createWorkflow and
\* editWorkflow calls the model emits, a validating call followed by further
\* calls of the same batch included
C40_ValidMeansValidatedCode ==
    \A r \in {workflow.result[i] : i \in 1..Len(workflow.result)} :
        r.isValid =>
            /\ r.generatedCode = workflow.validatedCode
            /\ validateAndExtract(r.generatedCode, workflow.accepted)

====
